---------------------------- MODULE Spec2Model ----------------------------
(***************************************************************************)
(* A model of the git-viewer front end (src/src/main.js) and of the search *)
(* backend it calls.  Each subsystem is modelled with its own               *)
(* specifications over the shared variables:                               *)
(*                                                                         *)
(*   SpecBlame   the blame view and its result cache (loadFileBlame,       *)
(*               cacheBlameResult)                                         *)
(*   SpecSearch  the global search box: the input listener, the debounce   *)
(*               timer, performGlobalSearch and its continuation           *)
(*   SpecLimit   the search box with the search-limit setting varying      *)
(*               (getSearchLimit, setSearchLimit)                          *)
(*   SpecEngine  the global_search and list_commits commands of the backend *)
(*   SpecDiff    the backend's Diff Engine, one diff of two blobs           *)
(*   SpecNav     the commit, file and diff panels and their keyboard        *)
(*               navigation (selectCommit, selectFile, filterFiles)         *)
(*   SpecRecent  opening repositories and the recent-repositories list      *)
(*               (openRepository, addToRecentRepositories)                  *)
(*   SpecFilter  the panels with the file filter, answered one request at  *)
(*               a time (filterFiles)                                       *)
(*   SpecRace    the panels before a user who does not wait for answers     *)
(*   SpecView    the same user with the diff and blame buttons              *)
(*   SpecSidebar the Commits, Staged and Stash tabs (switchSidebarMode)     *)
(***************************************************************************)
EXTENDS Integers, Sequences, FiniteSets, Bags, TLC

VARIABLES
    \* ---- program state shared by the subsystems (main.js:5-8)
    currentRepoPath,    \* let currentRepoPath = null
    selectedCommit,     \* let selectedCommit = null
    selectedFile,       \* let selectedFile = null
    \* ---- blame view (main.js:19-21, 175-176, 732-782)
    blameCache,         \* the Map, as the sequence of its entries in Map order
    blamePending,       \* get_file_blame invocations awaiting their response (a bag)
    currentBlameData,   \* let currentBlameData = null
    fileDiffPanel,      \* what #file-diff shows
    \* ---- the user's walk through the history, and history variables
    cursor,             \* index in the walk of the (repository, commit, file) shown
    overlaps,           \* requests issued while another one was in flight
    insertOrder,        \* keys present in the cache, in the order they became present
    lastLoad,           \* what the last loadFileBlame call looked up and did
    lastPut,            \* what the last cacheBlameResult call did
    \* ---- global search box (main.js:171-172, 1505-1531, 1979-2005, 2152-2178)
    searchInputValue,   \* #global-search .value
    searchTimeout,      \* let searchTimeout = null: the handle of the last timer set
    timers,             \* the debounce timers still to fire
    searchPending,      \* global_search invocations awaiting their response (a bag)
    isSearching,        \* let isSearching = false
    searchOverlay,      \* #search-results-overlay: shown or not, and its content
    searchLimitStored,  \* localStorage[SEARCH_LIMIT_KEY]
    \* ---- time, and history variables of the search box
    sinceInput,         \* ms since the last input event (counted up to DEBOUNCE_MS)
    burstQuery,         \* the value of the last input event
    burstEvents,        \* input events of the burst so far: 0, 1 or 2 (two or more)
    burstIssued,        \* queries of the requests issued since the burst began
    lastEvent,          \* the handler that ran last, and the query it was given
    lastIssued,         \* the global_search request issued last
    \* ---- the backend's global_search command, one invocation
    engInput,           \* the command, the repository and the arguments given
    engStart,           \* the commit the walk starts from, 0 before it is resolved
    engPos,             \* commits of the walk scanned so far
    engResults,         \* the SearchResults emitted so far
    engCommits,         \* the Commits list_commits has collected
    engStatus,          \* "called", "walking", "returned" or "failed"
    \* ---- the backend's Diff Engine, one diff of two blobs
    diffInput,          \* the old and the new blob
    diffCursor,         \* lines of the old and of the new blob aligned so far
    diffCounters,       \* the old and the new line counter
    diffLines,          \* the DiffLines emitted so far
    diffStatus,         \* "idle", "diffing" or "returned"
    \* ---- the commit, file and diff panels (main.js:159-176)
    commitsPanel,       \* what #commits shows: a message and the commit items
    commitItems,        \* let commitItems = []
    currentCommitIndex, \* let currentCommitIndex = -1
    fileChangesPanel,   \* what #file-changes shows: a message and the file items
    allFileItems,       \* let allFileItems = []
    filteredFileItems,  \* let filteredFileItems = []
    fileItems,          \* let fileItems = []
    currentFileIndex,   \* let currentFileIndex = -1
    currentViewMode,    \* let currentViewMode = 'diff'
    searchResultItems,  \* the .search-result-item elements of the overlay
    listItemsFirst,     \* document order: list items before the other elements
    navLimit,           \* requests and timers outstanding below which the user acts
    navPending,         \* invocations of the panels awaiting their response (a bag)
    navTimers,          \* setTimeout callbacks of handleSearchResultClick not yet run
    navEvent,           \* history: the handler that ran last, and what it met
    navClick,           \* history: the search result clicked last
    \* ---- opening repositories (main.js:10-13, 1578-1696, 2415-2425)
    recentReposItem,    \* localStorage[RECENT_REPOS_KEY]
    lastRepoItem,       \* localStorage[LAST_REPO_KEY]
    now,                \* the clock new Date() reads, in opens so far
    pathsSeen,          \* distinct repository paths opened so far
    restored,           \* whether loadLastRepository has run since the page loaded
    dialogsOpen,        \* directory dialogs awaiting the user's choice
    repoEvent,          \* history: the openRepository call that got its answer last
    \* ---- the sidebar tabs (main.js:6, 188, 2527-2611)
    currentBranch,      \* let currentBranch = null
    currentSidebarMode, \* let currentSidebarMode = 'commits'
    sidebarLists,       \* what #staged and #stash show
    sidebarPending,     \* invocations of the sidebar awaiting their response (a bag)
    sidebarEvent        \* history: the switchSidebarMode call that ran last

blameVars == <<currentRepoPath, selectedCommit, selectedFile, blameCache,
               blamePending, currentBlameData, fileDiffPanel, cursor, overlaps,
               insertOrder, lastLoad, lastPut>>

searchVars == <<searchInputValue, searchTimeout, timers, searchPending, isSearching,
                searchOverlay, searchLimitStored, sinceInput, burstQuery, burstEvents,
                burstIssued, lastEvent, lastIssued>>

engineVars == <<engInput, engStart, engPos, engResults, engCommits, engStatus>>

diffVars == <<diffInput, diffCursor, diffCounters, diffLines, diffStatus>>

navVars == <<commitsPanel, commitItems, currentCommitIndex, fileChangesPanel, allFileItems,
             filteredFileItems, fileItems, currentFileIndex, currentViewMode,
             searchResultItems, listItemsFirst, navLimit, navPending, navTimers,
             navEvent, navClick>>

recentVars == <<recentReposItem, lastRepoItem, now, pathsSeen, restored, dialogsOpen,
                repoEvent>>

sidebarVars == <<currentBranch, currentSidebarMode, sidebarLists, sidebarPending,
                 sidebarEvent>>

vars == <<blameVars, searchVars, engineVars, diffVars, navVars, recentVars, sidebarVars>>

\* What the steps of one subsystem leave alone.
besideBlame == <<searchVars, engineVars, diffVars, navVars, recentVars, sidebarVars>>
besideSearch == <<blameVars, engineVars, diffVars, navVars, recentVars, sidebarVars>>
besideEngine == <<blameVars, searchVars, diffVars, navVars, recentVars, sidebarVars>>
besideDiff == <<blameVars, searchVars, engineVars, navVars, recentVars, sidebarVars>>
besideNav == <<searchVars, engineVars, diffVars, recentVars, sidebarVars>>
besideBranch == <<searchVars, engineVars, diffVars, recentVars, currentSidebarMode,
                  sidebarLists, sidebarPending, sidebarEvent>>
besideRecent == <<selectedCommit, selectedFile, blameCache, blamePending,
                  currentBlameData, fileDiffPanel, cursor, overlaps, insertOrder,
                  lastLoad, lastPut, searchVars, engineVars, diffVars, navVars,
                  sidebarVars>>

\* JavaScript's null.
Null == "null"

-----------------------------------------------------------------------------
(***************************************************************************)
(* The repositories the user browses.  Paths and ids are strings.  One     *)
(* repository path and one file path hold a colon, which both POSIX paths  *)
(* and git tree entries allow.  logo.png is a binary file: get_file_blame  *)
(* fails on it.                                                            *)
(***************************************************************************)
RepoPaths == <<"/r", "/r:a1">>

CommitIds == <<"a1", "b2", "c3">>

FilePaths == <<"b2:f", "f", "logo.png", "g", "h", "i", "j", "k", "l", "m">>

NumTriples == Len(RepoPaths) * Len(CommitIds) * Len(FilePaths)

\* The i-th (repository, commit, file) of the walk: files of a commit first,
\* then the next commit, then the next repository.
TripleAt(i) ==
    LET n == i - 1
        f == (n % Len(FilePaths)) + 1
        c == ((n \div Len(FilePaths)) % Len(CommitIds)) + 1
        r == (n \div (Len(FilePaths) * Len(CommitIds))) + 1
    IN  <<RepoPaths[r], CommitIds[c], FilePaths[f]>>

\* The backend's get_file_blame: a FileBlame for the file at the commit, or an
\* error for a binary file.
BlameFails(path, commitId, filePath) == filePath = "logo.png"

GetFileBlame(path, commitId, filePath) ==
    [path |-> filePath, lines |-> <<path, commitId, filePath>>]

-----------------------------------------------------------------------------
(***************************************************************************)
(* A JavaScript Map, as the sequence of its [key, value] entries in        *)
(* insertion order.  set() of a key already present replaces the value in  *)
(* place; delete() removes the entry; keys().next().value is the first     *)
(* entry's key.                                                            *)
(***************************************************************************)
MapKeys(m) == {m[i].key : i \in 1..Len(m)}

MapIndex(m, k) == CHOOSE i \in 1..Len(m) : m[i].key = k

MapHas(m, k) == \E i \in 1..Len(m) : m[i].key = k

MapGet(m, k) == m[MapIndex(m, k)].value

MapDelete(m, k) == SelectSeq(m, LAMBDA e : e.key # k)

MapSet(m, k, v) ==
    IF MapHas(m, k)
    THEN [m EXCEPT ![MapIndex(m, k)] = [key |-> k, value |-> v]]
    ELSE Append(m, [key |-> k, value |-> v])

MapFirstKey(m) == IF Len(m) = 0 THEN Null ELSE m[1].key

MAX_CACHE_SIZE == 50

\* const cacheKey = `${currentRepoPath}:${selectedCommit}:${filePath}`
CacheKey(path, commitId, filePath) == path \o ":" \o commitId \o ":" \o filePath

CacheBlameResult_NoEvict(cache, cacheKey, blame) == MapSet(cache, cacheKey, blame)

\* function cacheBlameResult(cacheKey, blame)
CacheBlameResult(cache, cacheKey, blame) ==
    IF Len(cache) >= MAX_CACHE_SIZE
    THEN MapSet(MapDelete(cache, MapFirstKey(cache)), cacheKey, blame)
    ELSE MapSet(cache, cacheKey, blame)

\* What #file-diff shows.
PanelInitial == [kind |-> "initial", data |-> Null]
PanelLoading(filePath) == [kind |-> "loading", data |-> filePath]
PanelBlame(blame) == [kind |-> "blame", data |-> blame]
PanelError(filePath) == [kind |-> "error", data |-> filePath]

BlameRequest(path, commitId, filePath) ==
    [key |-> CacheKey(path, commitId, filePath),
     path |-> path, commitId |-> commitId, filePath |-> filePath]

LoadFileBlame_AlwaysFetch(path, commitId, filePath) ==
    /\ fileDiffPanel' = PanelLoading(filePath)
    /\ blamePending' = blamePending (+) SetToBag({BlameRequest(path, commitId, filePath)})
    /\ UNCHANGED <<blameCache, currentBlameData>>

LoadFileBlame_RefreshOnHit(path, commitId, filePath) ==
    LET cacheKey == CacheKey(path, commitId, filePath) IN
    IF MapHas(blameCache, cacheKey)
    THEN /\ currentBlameData' = MapGet(blameCache, cacheKey)
         /\ fileDiffPanel' = PanelBlame(MapGet(blameCache, cacheKey))
         /\ blameCache' = Append(MapDelete(blameCache, cacheKey),
                                 [key |-> cacheKey, value |-> MapGet(blameCache, cacheKey)])
         /\ UNCHANGED blamePending
    ELSE /\ fileDiffPanel' = PanelLoading(filePath)
         /\ blamePending' = blamePending (+) SetToBag({BlameRequest(path, commitId, filePath)})
         /\ UNCHANGED <<blameCache, currentBlameData>>

(***************************************************************************)
(* async function loadFileBlame(filePath), up to its await: path and       *)
(* commitId are currentRepoPath and selectedCommit as the call reads them. *)
(***************************************************************************)
LoadFileBlame(path, commitId, filePath) ==
    LET cacheKey == CacheKey(path, commitId, filePath) IN
    IF path = Null \/ commitId = Null
    THEN UNCHANGED <<blameCache, blamePending, currentBlameData, fileDiffPanel>>
    ELSE IF MapHas(blameCache, cacheKey)
    THEN /\ currentBlameData' = MapGet(blameCache, cacheKey)
         /\ fileDiffPanel' = PanelBlame(MapGet(blameCache, cacheKey))
         /\ UNCHANGED <<blameCache, blamePending>>
    ELSE /\ fileDiffPanel' = PanelLoading(filePath)
         /\ blamePending' = blamePending (+) SetToBag({BlameRequest(path, commitId, filePath)})
         /\ UNCHANGED <<blameCache, currentBlameData>>


-----------------------------------------------------------------------------
(***************************************************************************)
(* The blame view's steps.  The user walks the history forward, one        *)
(* (repository, commit, file) at a time, with the blame view on: each      *)
(* selection ends in loadFileBlame.  MaxOverlaps bounds how many requests  *)
(* the user issues while an earlier one is still in flight.                *)
(***************************************************************************)
MaxOverlaps == 2

\* The debounce delay of the search box: setTimeout(..., 300).
DEBOUNCE_MS == 300

OverlayAtLoad == [shown |-> FALSE, kind |-> "empty", query |-> <<>>]

\* The module's variables as main.js declares them, before any handler ran.
NoRepositoryOpen ==
    /\ currentRepoPath = Null
    /\ selectedCommit = Null
    /\ selectedFile = Null

SearchBoxAtLoad ==
    /\ searchInputValue = <<>>
    /\ searchTimeout = Null
    /\ timers = {}
    /\ searchPending = EmptyBag
    /\ isSearching = FALSE
    /\ searchOverlay = OverlayAtLoad
    /\ sinceInput = DEBOUNCE_MS
    /\ burstQuery = <<>>
    /\ burstEvents = 0
    /\ burstIssued = <<>>
    /\ lastEvent = [kind |-> "load", query |-> <<>>]
    /\ lastIssued = [any |-> FALSE, req |-> Null, stored |-> Null]

\* No global_search invocation is modelled.
EngineIdle ==
    /\ engInput = Null
    /\ engStart = 0
    /\ engPos = 0
    /\ engResults = <<>>
    /\ engCommits = <<>>
    /\ engStatus = "idle"

\* What a list panel shows: a message, or the items of the list.
ListPanel(message, items) == [message |-> message, items |-> items]

\* Requests and timers of the panels outstanding below which the user acts:
\* one at a time where the handlers are followed step by step, and one more
\* where a user who does not wait for the answers is followed.
MaxNavInFlight == 1
MaxRaceInFlight == 2

\* The sidebar as main.js:6 and 188 leave it.
SidebarAtLoad ==
    /\ currentBranch = Null
    /\ currentSidebarMode = "commits"
    /\ sidebarLists = [staged |-> ListPanel("placeholder", <<>>),
                       stash |-> ListPanel("placeholder", <<>>)]
    /\ sidebarPending = EmptyBag
    /\ sidebarEvent = [from |-> "", to |-> "", repoOpen |-> FALSE, branch |-> Null,
                       issued |-> EmptyBag]

\* The lists as index.html and main.js:159-176 leave them.
ListsAtLoad ==
    /\ commitsPanel = ListPanel("placeholder", <<>>)
    /\ commitItems = <<>>
    /\ currentCommitIndex = -1
    /\ fileChangesPanel = ListPanel("placeholder", <<>>)
    /\ allFileItems = <<>>
    /\ filteredFileItems = <<>>
    /\ fileItems = <<>>
    /\ currentFileIndex = -1
    /\ currentViewMode = "diff"
    /\ searchResultItems = <<>>
    /\ listItemsFirst = TRUE
    /\ navPending = EmptyBag
    /\ navTimers = EmptyBag
    /\ navEvent = [kind |-> "load", cmd |-> "", shown |-> <<>>, index |-> -1]
    /\ navClick = [any |-> FALSE, commitId |-> "", filePath |-> "", type |-> ""]
    /\ SidebarAtLoad

\* The panels at load, before a user who waits for each answer.
PanelsAtLoad ==
    /\ ListsAtLoad
    /\ navLimit = MaxNavInFlight

\* The folders the user opens as repositories, in the order they are first
\* opened, each with the segments path.split('/') gives.  The second one was
\* typed with a trailing slash, so that its last segment is empty.
RepositoryFolders == <<
    [path |-> "/w/p1",  segments |-> <<"", "w", "p1">>],
    [path |-> "/w/p2/", segments |-> <<"", "w", "p2", "">>],
    [path |-> "/w/p3",  segments |-> <<"", "w", "p3">>],
    [path |-> "/w/p4",  segments |-> <<"", "w", "p4">>],
    [path |-> "/w/p5",  segments |-> <<"", "w", "p5">>],
    [path |-> "/w/p6",  segments |-> <<"", "w", "p6">>],
    [path |-> "/w/p7",  segments |-> <<"", "w", "p7">>],
    [path |-> "/w/p8",  segments |-> <<"", "w", "p8">>],
    [path |-> "/w/p9",  segments |-> <<"", "w", "p9">>],
    [path |-> "/w/p10", segments |-> <<"", "w", "p10">>],
    [path |-> "/w/p11", segments |-> <<"", "w", "p11">>],
    [path |-> "/w/p12", segments |-> <<"", "w", "p12">>],
    [path |-> "/w/p13", segments |-> <<"", "w", "p13">>],
    [path |-> "/w/p14", segments |-> <<"", "w", "p14">>],
    [path |-> "/w/p15", segments |-> <<"", "w", "p15">>],
    [path |-> "/w/p16", segments |-> <<"", "w", "p16">>] >>

\* repoPath.split('/')
Split(repoPath) ==
    RepositoryFolders[CHOOSE i \in DOMAIN RepositoryFolders :
                         RepositoryFolders[i].path = repoPath].segments

\* repoPath.split('/').pop() || repoPath (main.js:1604)
FolderName(repoPath) ==
    LET segs == Split(repoPath)
        last == segs[Len(segs)]
    IN IF last = "" THEN repoPath ELSE last

\* The entry addToRecentRepositories builds (main.js:1602-1606); lastOpened
\* is the clock's reading.
RecentEntry(repoPath, time) ==
    [path |-> repoPath, name |-> FolderName(repoPath), lastOpened |-> time]

\* A localStorage item that holds JSON: absent, or the value that was
\* stringified.  The entries are objects of strings, which JSON.stringify
\* and JSON.parse carry over unchanged.
NoJson == [present |-> FALSE, value |-> <<>>]
Json(value) == [present |-> TRUE, value |-> value]

\* A localStorage item that holds a path: absent, or the path.
NoPath == [present |-> FALSE, path |-> ""]
StoredPath(path) == [present |-> TRUE, path |-> path]

\* What earlier sessions have left in localStorage after opening the first
\* n folders one after the other, and the page as it loads (main.js:5).
\* The clock counts from the page load, so the entries of earlier sessions
\* bear negative times.
RecentAtLoad(n) ==
    /\ recentReposItem =
          IF n = 0 THEN NoJson
          ELSE Json([i \in 1..n |->
                       RecentEntry(RepositoryFolders[n + 1 - i].path, 0 - i)])
    /\ lastRepoItem =
          IF n = 0 THEN NoPath ELSE StoredPath(RepositoryFolders[n].path)
    /\ now = 0
    /\ pathsSeen = n
    /\ restored = FALSE
    /\ dialogsOpen = 0
    /\ repoEvent = [kind |-> "load", path |-> ""]

\* No diff is modelled.
DiffIdle ==
    /\ diffInput = Null
    /\ diffCursor = <<0, 0>>
    /\ diffCounters = [old |-> 0, new |-> 0]
    /\ diffLines = <<>>
    /\ diffStatus = "idle"

BlameViewAtLoad ==
    /\ blameCache = <<>>
    /\ blamePending = EmptyBag
    /\ currentBlameData = Null
    /\ fileDiffPanel = PanelInitial
    /\ cursor = 0
    /\ overlaps = 0
    /\ insertOrder = <<>>
    /\ lastLoad = [lookup |-> <<>>, hit |-> FALSE, issued |-> FALSE, shown |-> PanelInitial,
                   stored |-> Null, size |-> 0, headBefore |-> Null, headAfter |-> Null]
    /\ lastPut = [key |-> Null, evicted |-> {}, oldest |-> Null, sizeBefore |-> 0,
                  sizeAfter |-> 0]

InitBlame ==
    /\ NoRepositoryOpen
    /\ BlameViewAtLoad
    /\ SearchBoxAtLoad
    /\ searchLimitStored = [present |-> FALSE, text |-> <<>>]
    /\ EngineIdle
    /\ DiffIdle
    /\ PanelsAtLoad
    /\ RecentAtLoad(0)

\* The record of a loadFileBlame call, read off the state before and after it.
LoadObserved(path, commitId, filePath) ==
    LET cacheKey == CacheKey(path, commitId, filePath)
        hit == MapHas(blameCache, cacheKey)
    IN  [lookup |-> <<path, commitId, filePath>>,
         hit |-> hit,
         issued |-> blamePending' # blamePending,
         shown |-> fileDiffPanel',
         stored |-> IF hit THEN MapGet(blameCache, cacheKey) ELSE Null,
         size |-> Len(blameCache),
         headBefore |-> MapFirstKey(blameCache),
         headAfter |-> MapFirstKey(blameCache')]

MayIssue == BagCardinality(blamePending) = 0 \/ overlaps < MaxOverlaps

CountOverlap ==
    overlaps' = IF BagCardinality(blamePending) > 0 /\ blamePending' # blamePending
                THEN overlaps + 1
                ELSE overlaps

\* selectFile(filePath) on the next item of the walk, with currentViewMode
\* 'blame': loadFileView calls loadFileBlame.
SelectNextFile ==
    /\ cursor < NumTriples
    /\ MayIssue
    /\ LET t == TripleAt(cursor + 1) IN
        /\ cursor' = cursor + 1
        /\ currentRepoPath' = t[1]
        /\ selectedCommit' = t[2]
        /\ selectedFile' = t[3]
        /\ LoadFileBlame(t[1], t[2], t[3])
        /\ lastLoad' = LoadObserved(t[1], t[2], t[3])
    /\ CountOverlap
    /\ UNCHANGED <<insertOrder, lastPut>>
    /\ UNCHANGED besideBlame

\* The blame button, pressed after the diff button: loadFileView(selectedFile)
\* calls loadFileBlame for the file already selected.
ReloadFileBlame ==
    /\ selectedFile # Null
    /\ MayIssue
    /\ LoadFileBlame(currentRepoPath, selectedCommit, selectedFile)
    /\ lastLoad' = LoadObserved(currentRepoPath, selectedCommit, selectedFile)
    /\ CountOverlap
    /\ UNCHANGED <<currentRepoPath, selectedCommit, selectedFile, cursor, insertOrder,
                   lastPut>>
    /\ UNCHANGED besideBlame

\* The record of a cacheBlameResult call, read off the Map before and after
\* it.  An entry is evicted when its key leaves the Map, or when the key
\* just set has changed place among the surviving keys (set() never moves
\* an entry, so it was deleted and inserted anew).
PutMoved(before, after, cacheKey) ==
    /\ MapHas(before, cacheKey)
    /\ MapHas(after, cacheKey)
    /\ \E k \in MapKeys(before) \cap MapKeys(after) :
        (MapIndex(before, k) < MapIndex(before, cacheKey))
            # (MapIndex(after, k) < MapIndex(after, cacheKey))

PutEvicted(before, after, cacheKey) ==
    (MapKeys(before) \ MapKeys(after))
        \cup (IF PutMoved(before, after, cacheKey) THEN {cacheKey} ELSE {})

PutObserved(before, after, cacheKey) ==
    [key |-> cacheKey,
     evicted |-> PutEvicted(before, after, cacheKey),
     oldest |-> IF insertOrder = <<>> THEN Null ELSE insertOrder[1],
     sizeBefore |-> Len(before),
     sizeAfter |-> Len(after)]

InsertOrderAfterPut(evicted, after, cacheKey) ==
    LET kept == SelectSeq(insertOrder, LAMBDA k : k \notin evicted)
    IN  IF (\E i \in 1..Len(kept) : kept[i] = cacheKey) \/ ~MapHas(after, cacheKey)
        THEN kept
        ELSE Append(kept, cacheKey)

\* loadFileBlame after its await, the response being a FileBlame.
BlameResolved ==
    \E req \in BagToSet(blamePending) :
        /\ ~BlameFails(req.path, req.commitId, req.filePath)
        /\ LET blame == GetFileBlame(req.path, req.commitId, req.filePath) IN
            /\ blameCache' = CacheBlameResult(blameCache, req.key, blame)
            /\ currentBlameData' = blame
            /\ fileDiffPanel' = PanelBlame(blame)
        /\ blamePending' = blamePending (-) SetToBag({req})
        /\ lastPut' = PutObserved(blameCache, blameCache', req.key)
        /\ insertOrder' = InsertOrderAfterPut(lastPut'.evicted, blameCache', req.key)
        /\ UNCHANGED <<currentRepoPath, selectedCommit, selectedFile, cursor, overlaps,
                       lastLoad>>
        /\ UNCHANGED besideBlame

\* loadFileBlame after its await, the invocation having thrown.
BlameRejected ==
    \E req \in BagToSet(blamePending) :
        /\ BlameFails(req.path, req.commitId, req.filePath)
        /\ fileDiffPanel' = PanelError(req.filePath)
        /\ blamePending' = blamePending (-) SetToBag({req})
        /\ UNCHANGED <<currentRepoPath, selectedCommit, selectedFile, blameCache,
                       currentBlameData, cursor, overlaps, insertOrder, lastLoad, lastPut>>
        /\ UNCHANGED besideBlame

NextBlame ==
    \/ SelectNextFile
    \/ ReloadFileBlame
    \/ BlameResolved
    \/ BlameRejected

SpecBlame == InitBlame /\ [][NextBlame]_vars

-----------------------------------------------------------------------------
(***************************************************************************)
(* Claims about the blame cache, checked under SpecBlame.                  *)
(***************************************************************************)

\* C1: whatever loads, hits, misses and responses (in any order, several in
\* flight at once) have happened, the blame cache holds at most
\* MAX_CACHE_SIZE = 50 entries.
C1_CacheNeverExceedsCapacity == Len(blameCache) <= MAX_CACHE_SIZE

\* The cache is full, the last cacheBlameResult call evicted an entry, and
\* another request is still in flight.
C1_Witness ==
    /\ Len(blameCache) = MAX_CACHE_SIZE
    /\ lastPut.evicted # {}
    /\ BagCardinality(blamePending) > 0

\* C2: eviction is by insertion order.  An entry is inserted when its key
\* becomes present in the cache.  Every entry a cacheBlameResult call evicts
\* is the earliest inserted of the entries present; the entry to be evicted
\* next is always that earliest one; and a cache hit in loadFileBlame leaves
\* the entry to be evicted next as it was.
C2_EvictionIsInsertionOrder ==
    /\ \A k \in lastPut.evicted : k = lastPut.oldest
    /\ MapFirstKey(blameCache) = (IF insertOrder = <<>> THEN Null ELSE insertOrder[1])
    /\ lastLoad.hit => lastLoad.headAfter = lastLoad.headBefore

\* An eviction has happened, and the last loadFileBlame call was a hit on a
\* full cache for an entry that is not the newest.
C2_Witness ==
    /\ lastPut.evicted # {}
    /\ lastLoad.hit
    /\ lastLoad.size = MAX_CACHE_SIZE
    /\ Len(blameCache) = MAX_CACHE_SIZE
    /\ blameCache[Len(blameCache)].key # CacheKey(lastLoad.lookup[1], lastLoad.lookup[2],
                                                  lastLoad.lookup[3])

\* C3: a cacheBlameResult call that removes an entry leaves the cache with 50
\* entries (it evicts only when the insert would otherwise exceed the
\* capacity), also when two requests for one key were in flight.
C3_EvictsOnlyWhenOverCapacity ==
    lastPut.evicted # {} => lastPut.sizeAfter >= MAX_CACHE_SIZE

\* C4: the blame a lookup for a (repository, commit, file) gets from the
\* cache is the blame of that same triple.
C4_KeyedByTriple ==
    lastLoad.hit => lastLoad.stored = GetFileBlame(lastLoad.lookup[1], lastLoad.lookup[2],
                                                   lastLoad.lookup[3])

\* C5: a loadFileBlame call for a triple whose key is in the cache issues no
\* get_file_blame request and shows exactly the blame stored under the key.
C5_HitIssuesNoRequest ==
    lastLoad.hit => /\ ~lastLoad.issued
                    /\ lastLoad.shown = PanelBlame(lastLoad.stored)

\* The last loadFileBlame call was a hit, made while a request for another
\* file was in flight.
C5_Witness ==
    /\ lastLoad.hit
    /\ BagCardinality(blamePending) > 0

-----------------------------------------------------------------------------
(***************************************************************************)
(* The global search box.  Text the code inspects character by character   *)
(* (the query it trims, the limit it parses) is a sequence of one-         *)
(* character strings.                                                      *)
(***************************************************************************)
RECURSIVE TrimStart(_)
TrimStart(s) == IF s # <<>> /\ Head(s) = " " THEN TrimStart(Tail(s)) ELSE s

RECURSIVE TrimEnd(_)
TrimEnd(s) ==
    IF s # <<>> /\ s[Len(s)] = " " THEN TrimEnd(SubSeq(s, 1, Len(s) - 1)) ELSE s

\* String.prototype.trim
Trim(s) == TrimEnd(TrimStart(s))

TooShort_NoTrim(query) == Len(query) < 2

\* query.trim().length < 2
TooShort(query) == Len(Trim(query)) < 2

Digits == <<"0", "1", "2", "3", "4", "5", "6", "7", "8", "9">>

IsDigit(c) == \E d \in 1..10 : Digits[d] = c

DigitValue(c) == (CHOOSE d \in 1..10 : Digits[d] = c) - 1

RECURSIVE ParseDigits(_, _, _)
ParseDigits(s, acc, any) ==
    IF s # <<>> /\ IsDigit(Head(s))
    THEN ParseDigits(Tail(s), acc * 10 + DigitValue(Head(s)), TRUE)
    ELSE [nan |-> ~any, value |-> acc]

\* parseInt(s, 10): leading white space is skipped, a sign is read, then the
\* digits up to the first character that is none; NaN when there is no digit.
ParseInt(s) ==
    LET t == TrimStart(s) IN
    IF t # <<>> /\ Head(t) = "-"
    THEN LET p == ParseDigits(Tail(t), 0, FALSE) IN [nan |-> p.nan, value |-> 0 - p.value]
    ELSE IF t # <<>> /\ Head(t) = "+"
    THEN ParseDigits(Tail(t), 0, FALSE)
    ELSE ParseDigits(t, 0, FALSE)

RECURSIVE NumberToString(_)
\* Number.prototype.toString of an integer n >= 0
NumberToString(n) ==
    IF n < 10 THEN <<Digits[n + 1]>>
    ELSE Append(NumberToString(n \div 10), Digits[(n % 10) + 1])

DEFAULT_SEARCH_LIMIT == 100

SEARCH_LIMIT_MIN == 10

SEARCH_LIMIT_MAX == 10000

\* localStorage.getItem(SEARCH_LIMIT_KEY): null, or the text stored
NoItem == [present |-> FALSE, text |-> <<>>]
Item(text) == [present |-> TRUE, text |-> text]

\* limit >= 10 && limit <= 10000 (false of NaN)
LimitInRange(p) == ~p.nan /\ p.value >= SEARCH_LIMIT_MIN /\ p.value <= SEARCH_LIMIT_MAX

GetSearchLimit_NoUpperBound(stored) ==
    IF stored.present /\ stored.text # <<>>
    THEN LET p == ParseInt(stored.text) IN
         IF ~p.nan /\ p.value >= SEARCH_LIMIT_MIN THEN p.value ELSE DEFAULT_SEARCH_LIMIT
    ELSE DEFAULT_SEARCH_LIMIT

\* function getSearchLimit()
GetSearchLimit(stored) ==
    IF stored.present /\ stored.text # <<>>
    THEN LET p == ParseInt(stored.text) IN
         IF LimitInRange(p) THEN p.value ELSE DEFAULT_SEARCH_LIMIT
    ELSE DEFAULT_SEARCH_LIMIT

\* function setSearchLimit(limit): what localStorage holds afterwards
SetSearchLimit(stored, limit) ==
    LET p == ParseInt(limit) IN
    IF LimitInRange(p) THEN Item(NumberToString(p.value)) ELSE stored

\* function hideSearchResults()
HideSearchResults(overlay) == [overlay EXCEPT !.shown = FALSE]

\* clearTimeout(searchTimeout): the handle is the timer set last
ClearSearchTimeout == IF searchTimeout # Null THEN {t \in timers : ~t.latest} ELSE timers

OnSearchInput_NoClear(query) ==
    IF TooShort(query)
    THEN /\ timers' = timers
         /\ searchOverlay' = HideSearchResults(searchOverlay)
         /\ UNCHANGED searchTimeout
    ELSE /\ timers' = {[t EXCEPT !.latest = FALSE] : t \in timers}
                        \cup {[query |-> query, elapsed |-> 0, latest |-> TRUE]}
         /\ searchTimeout' = "timer"
         /\ UNCHANGED searchOverlay

\* searchInput.addEventListener('input', ...), query being e.target.value
OnSearchInput(query) ==
    IF TooShort(query)
    THEN /\ timers' = ClearSearchTimeout
         /\ searchOverlay' = HideSearchResults(searchOverlay)
         /\ UNCHANGED searchTimeout
    ELSE /\ timers' = {[t EXCEPT !.latest = FALSE] : t \in ClearSearchTimeout}
                        \cup {[query |-> query, elapsed |-> 0, latest |-> TRUE]}
         /\ searchTimeout' = "timer"
         /\ UNCHANGED searchOverlay

SearchRequest(query) ==
    [path |-> currentRepoPath, raw |-> query, query |-> Trim(query),
     maxCommits |-> GetSearchLimit(searchLimitStored)]

\* async function performGlobalSearch(query), up to its await
PerformGlobalSearch(query) ==
    IF currentRepoPath = Null \/ TooShort(query)
    THEN /\ searchOverlay' = HideSearchResults(searchOverlay)
         /\ UNCHANGED <<searchPending, isSearching>>
    ELSE /\ isSearching' = TRUE
         /\ searchPending' = searchPending (+) SetToBag({SearchRequest(query)})
         /\ UNCHANGED searchOverlay

\* displaySearchResults(results, query): the overlay shows the results that
\* answer the request's query, also when there are none ('No results found')
DisplaySearchResults(req) == [shown |-> TRUE, kind |-> "results", query |-> req.query]

SearchFailed(req) == [shown |-> TRUE, kind |-> "error", query |-> req.query]

-----------------------------------------------------------------------------
(***************************************************************************)
(* The search box's steps.  Time passes in ticks of TickMs; a timer may    *)
(* fire once DEBOUNCE_MS have passed since it was set, and not before.     *)
(* MaxSearchInFlight bounds the global_search requests in flight.          *)
(***************************************************************************)
TickMs == 100

MaxSearchInFlight == 2

\* What the user may type or paste into the search box.
Queries ==
    {<<>>, <<" ">>, <<"a">>, <<" ", "a", " ">>, <<"a", "b">>, <<" ", "a", "b">>,
     <<"c", "d">>}

\* What the user may enter as the search limit, and what an earlier session
\* may have left in localStorage.
LimitTexts ==
    {<<>>, <<"a", "b", "c">>, <<"9">>, <<"1", "0">>, <<"1", "0", "0", "0", "0">>,
     <<"1", "0", "0", "0", "1">>, <<"5", "0", "a", "b", "c">>, <<" ", "4", "2">>,
     <<"-", "2", "0">>}

Later(ms) == IF ms + TickMs >= DEBOUNCE_MS THEN DEBOUNCE_MS ELSE ms + TickMs

\* The request a step has issued: the one searchPending' holds once more.
NewRequest ==
    CHOOSE r \in BagToSet(searchPending') :
        CopiesIn(r, searchPending') > CopiesIn(r, searchPending)

\* An input event of the search box.
SearchInput(query) ==
    /\ searchInputValue' = query
    /\ OnSearchInput(query)
    /\ sinceInput' = 0
    /\ burstQuery' = query
    /\ burstEvents' = IF sinceInput >= DEBOUNCE_MS THEN 1 ELSE 2
    /\ burstIssued' = IF sinceInput >= DEBOUNCE_MS THEN <<>> ELSE burstIssued
    /\ lastEvent' = [kind |-> "input", query |-> query]
    /\ UNCHANGED <<searchPending, isSearching, searchLimitStored, lastIssued>>
    /\ UNCHANGED besideSearch

\* TickMs pass.
Tick ==
    /\ sinceInput < DEBOUNCE_MS \/ \E t \in timers : t.elapsed < DEBOUNCE_MS
    /\ sinceInput' = Later(sinceInput)
    /\ timers' = {[t EXCEPT !.elapsed = Later(t.elapsed)] : t \in timers}
    /\ UNCHANGED <<searchInputValue, searchTimeout, searchPending, isSearching,
                   searchOverlay, searchLimitStored, burstQuery, burstEvents, burstIssued,
                   lastEvent, lastIssued>>
    /\ UNCHANGED besideSearch

\* A debounce timer fires: its callback calls performGlobalSearch(query).
SearchTimerFired ==
    \E t \in timers :
        /\ t.elapsed >= DEBOUNCE_MS
        /\ BagCardinality(searchPending) < MaxSearchInFlight
        /\ timers' = timers \ {t}
        /\ PerformGlobalSearch(t.query)
        /\ lastEvent' = [kind |-> "search", query |-> t.query]
        /\ IF searchPending' # searchPending
           THEN /\ lastIssued' = [any |-> TRUE, req |-> NewRequest,
                                  stored |-> searchLimitStored]
                /\ burstIssued' = Append(burstIssued, NewRequest.query)
           ELSE UNCHANGED <<lastIssued, burstIssued>>
        /\ UNCHANGED <<searchInputValue, searchTimeout, searchLimitStored, sinceInput,
                       burstQuery, burstEvents>>
        /\ UNCHANGED besideSearch

\* performGlobalSearch after its await, the response being the results.
SearchResolved ==
    \E req \in BagToSet(searchPending) :
        /\ searchOverlay' = DisplaySearchResults(req)
        /\ isSearching' = FALSE
        /\ searchPending' = searchPending (-) SetToBag({req})
        /\ lastEvent' = [kind |-> "resolved", query |-> req.raw]
        /\ UNCHANGED <<searchInputValue, searchTimeout, timers, searchLimitStored,
                       sinceInput, burstQuery, burstEvents, burstIssued, lastIssued>>
        /\ UNCHANGED besideSearch

\* performGlobalSearch after its await, the invocation having thrown.
SearchRejected ==
    \E req \in BagToSet(searchPending) :
        /\ searchOverlay' = SearchFailed(req)
        /\ isSearching' = FALSE
        /\ searchPending' = searchPending (-) SetToBag({req})
        /\ lastEvent' = [kind |-> "rejected", query |-> req.raw]
        /\ UNCHANGED <<searchInputValue, searchTimeout, timers, searchLimitStored,
                       sinceInput, burstQuery, burstEvents, burstIssued, lastIssued>>
        /\ UNCHANGED besideSearch

\* Escape pressed in the search box.
SearchEscape ==
    /\ searchInputValue' = <<>>
    /\ searchOverlay' = HideSearchResults(searchOverlay)
    /\ lastEvent' = [kind |-> "escape", query |-> <<>>]
    /\ UNCHANGED <<searchTimeout, timers, searchPending, isSearching, searchLimitStored,
                   sinceInput, burstQuery, burstEvents, burstIssued, lastIssued>>
    /\ UNCHANGED besideSearch

\* The save button of the search settings: setSearchLimit(limitInput.value).
SaveSearchSettings(limit) ==
    /\ searchLimitStored' = SetSearchLimit(searchLimitStored, limit)
    /\ lastEvent' = [kind |-> "save", query |-> limit]
    /\ UNCHANGED <<searchInputValue, searchTimeout, timers, searchPending, isSearching,
                   searchOverlay, sinceInput, burstQuery, burstEvents, burstIssued,
                   lastIssued>>
    /\ UNCHANGED besideSearch

\* The search box with or without a repository open; nothing is stored
\* under the search-limit key.
InitSearch ==
    /\ currentRepoPath \in {Null, RepoPaths[1]}
    /\ selectedCommit = Null
    /\ selectedFile = Null
    /\ BlameViewAtLoad
    /\ SearchBoxAtLoad
    /\ searchLimitStored = NoItem
    /\ EngineIdle
    /\ DiffIdle
    /\ PanelsAtLoad
    /\ RecentAtLoad(0)

NextSearch ==
    \/ \E query \in Queries : SearchInput(query)
    \/ Tick
    \/ SearchTimerFired
    \/ SearchResolved
    \/ SearchRejected
    \/ SearchEscape

SpecSearch == InitSearch /\ [][NextSearch]_vars

\* The search box with a repository open and anything stored under the
\* search-limit key; the user searches for "ab" and saves limits.
InitLimit ==
    /\ currentRepoPath = RepoPaths[1]
    /\ selectedCommit = Null
    /\ selectedFile = Null
    /\ BlameViewAtLoad
    /\ SearchBoxAtLoad
    /\ searchLimitStored \in {NoItem} \cup {Item(text) : text \in LimitTexts}
    /\ EngineIdle
    /\ DiffIdle
    /\ PanelsAtLoad
    /\ RecentAtLoad(0)

NextLimit ==
    \/ \E limit \in LimitTexts : SaveSearchSettings(limit)
    \/ SearchInput(<<"a", "b">>)
    \/ Tick
    \/ SearchTimerFired
    \/ SearchResolved
    \/ SearchRejected

SpecLimit == InitLimit /\ [][NextLimit]_vars

-----------------------------------------------------------------------------
(***************************************************************************)
(* Claims about the search box, checked under SpecSearch and SpecLimit.    *)
(***************************************************************************)

\* C6: no global_search request in flight was made for a query whose trimmed
\* length is below 2, and right after the input listener or
\* performGlobalSearch has handled such a query the results overlay is
\* hidden.
C6_ShortQueryNeverSearched ==
    /\ \A req \in BagToSet(searchPending) : Len(Trim(req.raw)) >= 2
    /\ (lastEvent.kind \in {"input", "search"} /\ Len(Trim(lastEvent.query)) < 2)
            => ~searchOverlay.shown

\* The input listener has just handled a query of two or more characters
\* that trims to fewer than two, while the overlay held results.
C6_Witness ==
    /\ lastEvent.kind = "input"
    /\ Len(lastEvent.query) >= 2
    /\ Len(Trim(lastEvent.query)) < 2
    /\ searchOverlay.kind = "results"
    /\ ~searchOverlay.shown

\* The text stored under the search-limit key reads, as parseInt reads it,
\* as an integer from 10 to 10000.
StoredLimitValid(stored) ==
    /\ stored.present
    /\ ~ParseInt(stored.text).nan
    /\ ParseInt(stored.text).value \in 10..10000

\* C7: the request issued last, and every request in flight, carries a
\* maxCommits from 10 to 10000; it is 100 when the text stored under the
\* search-limit key at the time was absent or did not read as an integer
\* from 10 to 10000.
C7_MaxCommitsInRange ==
    /\ \A req \in BagToSet(searchPending) : req.maxCommits \in 10..10000
    /\ lastIssued.any =>
        /\ lastIssued.req.maxCommits \in 10..10000
        /\ ~StoredLimitValid(lastIssued.stored) => lastIssued.req.maxCommits = 100

\* A request has just been issued while the key held "10001".
C7_Witness ==
    /\ lastIssued.any
    /\ lastIssued.stored = Item(<<"1", "0", "0", "0", "1">>)
    /\ lastIssued.req.maxCommits = 100
    /\ lastEvent.kind = "search"

\* C8: since the first input event of the current burst (events less than
\* DEBOUNCE_MS apart) at most one request has been issued, and its query is
\* the trimmed value of the burst's last event.
C8_BurstIssuesOneSearch ==
    /\ Len(burstIssued) <= 1
    /\ Len(burstIssued) = 1 => burstIssued[1] = Trim(burstQuery)

\* A burst of two or more input events has led to its one request.
C8_Witness ==
    /\ burstEvents = 2
    /\ Len(burstIssued) = 1
    /\ lastEvent.kind = "search"

\* C9: results just rendered in the overlay answer the query of the request
\* issued last.
C9_OnlyLatestSearchRendered ==
    (lastEvent.kind = "resolved" /\ searchOverlay.kind = "results")
        => searchOverlay.query = lastIssued.req.query

-----------------------------------------------------------------------------
\* The backend's global_search and list_commits commands (src-tauri),
\* modelled from their contract: one invocation; the starting ref is
\* resolved, then global_search takes one step per commit of the walk.

MAX_RESULTS == 50
DEFAULT_MAX_COMMITS == 100
CONTENT_SEARCH_MAX_KB == 512
MIN_QUERY_LENGTH == 2

MaxRepoCommits == 24
MaxFilesPerCommit == 3

\* Text is a sequence of characters; the letters that occur in upper case.
ToLowerChar(c) ==
    CASE c = "A" -> "a"
      [] c = "B" -> "b"
      [] c = "F" -> "f"
      [] OTHER -> c

ToLowercase(text) == [i \in 1..Len(text) |-> ToLowerChar(text[i])]

\* Case-insensitive substring test.
ContainsIgnoreCase(text, query) ==
    LET t == ToLowercase(text)
        q == ToLowercase(query)
    IN  \E i \in 1..(Len(t) - Len(q) + 1) : SubSeq(t, i, i + Len(q) - 1) = q

\* The repositories searched: a history of numCommits commits, newest first.
\* Commit 1 is HEAD and commit numCommits is the root; every mergeEvery-th
\* commit is a merge; messages and changed files follow the catalogues below.
\* A repository with commits has one branch besides HEAD's, "dev", whose tip
\* is the parent of HEAD; a repository without commits has no ref at all.
CommitMessages ==
    << <<"d", "o", "c", "s">>,
       <<"F", "i", "x", " ", "A", "B">>,
       <<"a", "b", "c">> >>

ChangedFiles ==
    << [path |-> <<"s", "r", "c", "/", "A", "b", ".", "c">>,
        lines |-> << <<"z", "z">> >>, sizeKb |-> 1],
       [path |-> <<"m", ".", "c">>,
        lines |-> << <<"z", "z">>, <<"x", "a", "B", "x">> >>, sizeKb |-> 4],
       [path |-> <<"b", "i", "g">>,
        lines |-> << <<"a", "b">>, <<"z", "z">> >>, sizeKb |-> 512],
       [path |-> <<"n">>,
        lines |-> << <<"a", "b">> >>, sizeKb |-> 511],
       [path |-> <<"o">>,
        lines |-> << <<"q">> >>, sizeKb |-> 2] >>

Repositories ==
    [numCommits : 0..MaxRepoCommits,
     filesPerCommit : 0..MaxFilesPerCommit,
     mergeEvery : {0, 3}]

EngineQueries ==
    { <<"a", "b">>, <<"A", "B">>, <<"z", "z">>, <<"q", "q">>, <<"b">>, <<>> }

MaxCommitsValues == {10, 17, DEFAULT_MAX_COMMITS}

ParentCount(repo, commit) ==
    IF commit = repo.numCommits THEN 0
    ELSE IF repo.mergeEvery > 0 /\ commit % repo.mergeEvery = 0 THEN 2
    ELSE 1

CommitMessage(repo, commit) == CommitMessages[(commit % Len(CommitMessages)) + 1]

\* get_commit_changes: the files the commit changed against its first parent.
CommitChanges(repo, commit) ==
    SubSeq(ChangedFiles, 1,
           IF repo.filesPerCommit < Len(ChangedFiles) THEN repo.filesPerCommit
           ELSE Len(ChangedFiles))

HEAD == 1

BranchNames(repo) == IF repo.numCommits > 0 THEN {"dev"} ELSE {}

BranchTip(repo, branchName) == IF repo.numCommits > 1 THEN 2 ELSE HEAD

\* What commands are given as branch_name: none, a branch, a name that
\* resolves to nothing.
BranchArguments == {Null, "dev", "gone"}

\* An unknown branch name is an error.
ResolveRef_Strict(repo, branchName) ==
    IF repo.numCommits = 0 THEN [ok |-> FALSE, commit |-> 0]
    ELSE IF branchName = Null THEN [ok |-> TRUE, commit |-> HEAD]
    ELSE IF branchName \in BranchNames(repo)
    THEN [ok |-> TRUE, commit |-> BranchTip(repo, branchName)]
    ELSE [ok |-> FALSE, commit |-> 0]

\* The starting ref: the branch when it is named and resolves, HEAD
\* otherwise; RepositoryError when the repository has no commits.
ResolveRef(repo, branchName) ==
    IF repo.numCommits = 0 THEN [ok |-> FALSE, commit |-> 0]
    ELSE IF branchName # Null /\ branchName \in BranchNames(repo)
    THEN [ok |-> TRUE, commit |-> BranchTip(repo, branchName)]
    ELSE [ok |-> TRUE, commit |-> HEAD]

\* The Walker: at most maxCount commits from start, newest first.
WalkFrom(repo, start, maxCount) ==
    LET reachable == repo.numCommits - start + 1
    IN  [i \in 1..(IF reachable < maxCount THEN reachable ELSE maxCount) |-> start + i - 1]

\* The walk from HEAD.
Walk(repo, maxCount) == WalkFrom(repo, HEAD, maxCount)

\* The walk of the invocation, once its starting ref is resolved.
EngineWalk == WalkFrom(engInput.repo, engStart, engInput.maxCommits)

\* Commit: its id and the number of its parents.
Commit(repo, commit) == [id |-> commit, parents |-> ParentCount(repo, commit)]

SearchResult(type, commit, path, line) ==
    [result_type |-> type, commit_id |-> commit, file_path |-> path, line_number |-> line]

\* 1-based number of the first line that contains the query, 0 when none does.
FirstMatchingLine(lines, query) ==
    IF \E i \in 1..Len(lines) : ContainsIgnoreCase(lines[i], query)
    THEN CHOOSE i \in 1..Len(lines) :
            /\ ContainsIgnoreCase(lines[i], query)
            /\ \A j \in 1..(i - 1) : ~ContainsIgnoreCase(lines[j], query)
    ELSE 0

MessageMatches(repo, commit, query) ==
    IF ContainsIgnoreCase(CommitMessage(repo, commit), query)
    THEN << SearchResult("commit", commit, <<>>, 0) >>
    ELSE <<>>

RECURSIVE FileNameMatches(_, _, _)
FileNameMatches(files, commit, query) ==
    IF files = <<>> THEN <<>>
    ELSE (IF ContainsIgnoreCase(Head(files).path, query)
          THEN << SearchResult("file", commit, Head(files).path, 0) >>
          ELSE <<>>) \o FileNameMatches(Tail(files), commit, query)

RECURSIVE ContentMatches(_, _, _)
ContentMatches(files, commit, query) ==
    IF files = <<>> THEN <<>>
    ELSE LET file == Head(files)
             line == FirstMatchingLine(file.lines, query)
         IN  (IF /\ ~ContainsIgnoreCase(file.path, query)
                 /\ file.sizeKb < CONTENT_SEARCH_MAX_KB
                 /\ line > 0
              THEN << SearchResult("content", commit, file.path, line) >>
              ELSE <<>>) \o ContentMatches(Tail(files), commit, query)

\* Merge commits searched like any other commit.
CommitCandidates_MergesSearched(repo, commit, query) ==
    MessageMatches(repo, commit, query)
    \o FileNameMatches(CommitChanges(repo, commit), commit, query)
    \o ContentMatches(CommitChanges(repo, commit), commit, query)

\* The changed files searched file by file, name and content together,
\* before the commit message.
CommitCandidates_FileByFile(repo, commit, query) ==
    IF ParentCount(repo, commit) > 1 THEN <<>>
    ELSE LET files == CommitChanges(repo, commit)
             PerFile[i \in 0..Len(files)] ==
                IF i = 0 THEN <<>>
                ELSE PerFile[i - 1]
                     \o FileNameMatches(<<files[i]>>, commit, query)
                     \o ContentMatches(<<files[i]>>, commit, query)
         IN  PerFile[Len(files)] \o MessageMatches(repo, commit, query)

\* Everything one commit can contribute, in emission order.
CommitCandidates(repo, commit, query) ==
    IF ParentCount(repo, commit) > 1 THEN <<>>
    ELSE MessageMatches(repo, commit, query)
         \o FileNameMatches(CommitChanges(repo, commit), commit, query)
         \o ContentMatches(CommitChanges(repo, commit), commit, query)

\* The result cap tested only between commits, not at each result.
Emit_Unchecked(results, result) == Append(results, result)

\* A result is added only while the result budget lasts.
Emit(results, result) ==
    IF Len(results) < MAX_RESULTS THEN Append(results, result) ELSE results

RECURSIVE EmitAll(_, _)
EmitAll(results, candidates) ==
    IF candidates = <<>> THEN results
    ELSE EmitAll(Emit(results, Head(candidates)), Tail(candidates))

QueryRejected(query) == Len(query) < MIN_QUERY_LENGTH

\* Neither budget is exhausted and the walk has a next commit.
ScanContinues ==
    /\ ~QueryRejected(engInput.query)
    /\ engPos < Len(EngineWalk)
    /\ Len(engResults) < MAX_RESULTS

\* A short query is answered before the Walker is touched.
AnsweredUnwalked == engInput.command = "global_search" /\ QueryRejected(engInput.query)

\* The command resolves its starting ref, or fails with RepositoryError.
EngineResolveRef ==
    /\ engStatus = "called"
    /\ ~AnsweredUnwalked
    /\ LET ref == ResolveRef(engInput.repo, engInput.branchName)
       IN  /\ engStart' = ref.commit
           /\ engStatus' = IF ref.ok THEN "walking" ELSE "failed"
    /\ UNCHANGED <<engInput, engPos, engResults, engCommits>>
    /\ UNCHANGED besideEngine

\* global_search scans the next commit of the walk.
EngineScanCommit ==
    /\ engStatus = "walking"
    /\ engInput.command = "global_search"
    /\ ScanContinues
    /\ LET commit == EngineWalk[engPos + 1]
       IN  engResults' = EmitAll(engResults,
                                 CommitCandidates(engInput.repo, commit, engInput.query))
    /\ engPos' = engPos + 1
    /\ UNCHANGED <<engInput, engStart, engCommits, engStatus>>
    /\ UNCHANGED besideEngine

\* global_search returns what it has collected.
EngineReturn ==
    /\ engInput.command = "global_search"
    /\ \/ engStatus = "called" /\ AnsweredUnwalked
       \/ engStatus = "walking" /\ ~ScanContinues
    /\ engStatus' = "returned"
    /\ UNCHANGED <<engInput, engStart, engPos, engResults, engCommits>>
    /\ UNCHANGED besideEngine

\* list_commits returns the commits of the walk.
EngineListCommits ==
    /\ engStatus = "walking"
    /\ engInput.command = "list_commits"
    /\ engCommits' = [i \in 1..Len(EngineWalk) |-> Commit(engInput.repo, EngineWalk[i])]
    /\ engPos' = Len(EngineWalk)
    /\ engStatus' = "returned"
    /\ UNCHANGED <<engInput, engStart, engResults>>
    /\ UNCHANGED besideEngine

\* One invocation of global_search or of list_commits (which takes no query).
EngineInvocations ==
    [command : {"global_search"}, repo : Repositories, branchName : BranchArguments,
     query : EngineQueries, maxCommits : MaxCommitsValues]
    \cup
    [command : {"list_commits"}, repo : Repositories, branchName : BranchArguments,
     query : {<<>>}, maxCommits : MaxCommitsValues]

InitEngine ==
    /\ NoRepositoryOpen
    /\ BlameViewAtLoad
    /\ SearchBoxAtLoad
    /\ searchLimitStored = NoItem
    /\ engInput \in EngineInvocations
    /\ engStart = 0
    /\ engPos = 0
    /\ engResults = <<>>
    /\ engCommits = <<>>
    /\ engStatus = "called"
    /\ DiffIdle
    /\ PanelsAtLoad
    /\ RecentAtLoad(0)

NextEngine ==
    \/ EngineResolveRef
    \/ EngineScanCommit
    \/ EngineReturn
    \/ EngineListCommits

SpecEngine == InitEngine /\ [][NextEngine]_vars

\* C10: global_search never returns more than 50 results, whatever the
\* repository, the query and max_commits.
C10_AtMostFiftyResults ==
    engStatus = "returned" => Len(engResults) <= MAX_RESULTS

\* A search has returned exactly 50 results although the walk had commits
\* left within max_commits: the result cap is what ended it.
C10_Witness ==
    /\ engStatus = "returned"
    /\ Len(engResults) = MAX_RESULTS
    /\ engPos < Len(EngineWalk)

\* C11: no result of global_search, of any type, names a merge commit (a
\* commit with more than one parent).
C11_NoMergeCommitInResults ==
    \A i \in 1..Len(engResults) :
        ParentCount(engInput.repo, engResults[i].commit_id) <= 1

\* A search has returned results from both sides of a merge commit it walked
\* whose changed files match the query.
C11_Witness ==
    /\ engStatus = "returned"
    /\ \E m \in 1..engPos :
          /\ ParentCount(engInput.repo, m) > 1
          /\ CommitCandidates_MergesSearched(engInput.repo, m, engInput.query) # <<>>
          /\ \E i, j \in 1..Len(engResults) :
                engResults[i].commit_id < m /\ engResults[j].commit_id > m

\* Position of a commit in the walk of the invocation.
WalkPosition(commit) ==
    CHOOSE k \in 1..Len(EngineWalk) : EngineWalk[k] = commit

TypeRank(type) == CASE type = "commit" -> 1 [] type = "file" -> 2 [] type = "content" -> 3

\* C12: the results are in walk order, newest first: a result never follows
\* one of a commit walked later (so each commit's results are contiguous),
\* and within one commit the commit-type results come before the file-type
\* results, which come before the content-type results.
C12_ResultsInWalkOrder ==
    \A i, j \in 1..Len(engResults) :
        i < j =>
            LET a == engResults[i]
                b == engResults[j]
            IN  /\ WalkPosition(a.commit_id) <= WalkPosition(b.commit_id)
                /\ a.commit_id = b.commit_id
                        => TypeRank(a.result_type) <= TypeRank(b.result_type)

\* A search has returned results of all three types for one commit and
\* results of an older commit after them.
C12_Witness ==
    /\ engStatus = "returned"
    /\ \E i, j, k, l \in 1..Len(engResults) :
          /\ engResults[i].commit_id = engResults[j].commit_id
          /\ engResults[j].commit_id = engResults[k].commit_id
          /\ engResults[i].result_type = "commit"
          /\ engResults[j].result_type = "file"
          /\ engResults[k].result_type = "content"
          /\ engResults[l].commit_id > engResults[k].commit_id

\* The invocation named a branch that does not resolve, in a repository
\* that has commits.
UnresolvedBranchGiven ==
    /\ engStatus \in {"walking", "returned", "failed"}
    /\ ~AnsweredUnwalked
    /\ engInput.repo.numCommits > 0
    /\ engInput.branchName # Null
    /\ engInput.branchName \notin BranchNames(engInput.repo)

\* C13: list_commits and global_search, given a branch name that does not
\* resolve in a repository that has commits, walk from HEAD and return a
\* normal result: they never fail, list_commits returns the commits of the
\* walk from HEAD, and global_search scans that walk.
C13_UnresolvedBranchFallsBackToHead ==
    UnresolvedBranchGiven =>
        /\ engStatus # "failed"
        /\ engStart = HEAD
        /\ (engStatus = "returned" /\ engInput.command = "list_commits")
                => engCommits = [i \in 1..Len(Walk(engInput.repo, engInput.maxCommits)) |->
                                    Commit(engInput.repo,
                                           Walk(engInput.repo, engInput.maxCommits)[i])]
        /\ (engStatus = "returned" /\ engInput.command = "global_search")
                => \A i \in 1..Len(engResults) :
                      \E k \in 1..engPos :
                          Walk(engInput.repo, engInput.maxCommits)[k] = engResults[i].commit_id

\* global_search, given a branch that does not resolve, has returned a
\* result for HEAD, a commit the existing branch does not reach.
C13_Witness ==
    /\ UnresolvedBranchGiven
    /\ engInput.command = "global_search"
    /\ engStatus = "returned"
    /\ engInput.repo.numCommits > 1
    /\ \E i \in 1..Len(engResults) : engResults[i].commit_id = HEAD

-----------------------------------------------------------------------------
\* The backend's Diff Engine (src-tauri), modelled from its contract: one
\* diff of two blobs, one step per DiffLine.

MaxBlobLines == 3

\* A blob is a sequence of lines; the line NUL stands for content with a
\* null byte.
BlobLines == {"a", "b", "NUL"}

Blobs == UNION {[1..n -> BlobLines] : n \in 0..MaxBlobLines}

IsBinary(blob) == \E i \in 1..Len(blob) : blob[i] = "NUL"

\* An optional line number that is not set.
Unset == 0

RECURSIVE LcsLength(_, _)
\* Length of a longest common subsequence of two sequences of lines.
LcsLength(old, new) ==
    IF old = <<>> \/ new = <<>> THEN 0
    ELSE IF Head(old) = Head(new) THEN 1 + LcsLength(Tail(old), Tail(new))
    ELSE LET skipOld == LcsLength(Tail(old), new)
             skipNew == LcsLength(old, Tail(new))
         IN  IF skipOld >= skipNew THEN skipOld ELSE skipNew

\* The line type the alignment gives next, the blobs' remainders being old
\* and new (not both empty).
NextLineType(old, new) ==
    IF new = <<>> THEN "deletion"
    ELSE IF old = <<>> THEN "addition"
    ELSE IF Head(old) = Head(new) THEN "context"
    ELSE IF LcsLength(Tail(old), new) >= LcsLength(old, Tail(new)) THEN "deletion"
    ELSE "addition"

\* Every line advances both counters.
Advance_Both(counters, type) == [old |-> counters.old + 1, new |-> counters.new + 1]

\* The counters after a line of the type: the old one advances on context
\* and deletion lines, the new one on context and addition lines.
Advance(counters, type) ==
    [old |-> IF type \in {"context", "deletion"} THEN counters.old + 1 ELSE counters.old,
     new |-> IF type \in {"context", "addition"} THEN counters.new + 1 ELSE counters.new]

\* The DiffLine of the type, the counters having advanced over it.
DiffLine(type, counters, content) ==
    [line_type |-> type,
     old_line_number |-> IF type \in {"context", "deletion"} THEN counters.old ELSE Unset,
     new_line_number |-> IF type \in {"context", "addition"} THEN counters.new ELSE Unset,
     content |-> content]

Remainder(blob, consumed) == SubSeq(blob, consumed + 1, Len(blob))

DiffIsBinary == IsBinary(diffInput.old) \/ IsBinary(diffInput.new)

DiffComplete == diffCursor = <<Len(diffInput.old), Len(diffInput.new)>>

\* The engine emits the next DiffLine of the alignment.
DiffEmitLine ==
    /\ diffStatus = "diffing"
    /\ ~DiffIsBinary
    /\ ~DiffComplete
    /\ LET old == Remainder(diffInput.old, diffCursor[1])
           new == Remainder(diffInput.new, diffCursor[2])
           type == NextLineType(old, new)
           counters == Advance(diffCounters, type)
       IN  /\ diffCounters' = counters
           /\ diffLines' = Append(diffLines,
                  DiffLine(type, counters, IF type = "addition" THEN Head(new) ELSE Head(old)))
           /\ diffCursor' = <<diffCursor[1] + (IF type = "addition" THEN 0 ELSE 1),
                              diffCursor[2] + (IF type = "deletion" THEN 0 ELSE 1)>>
    /\ UNCHANGED <<diffInput, diffStatus>>
    /\ UNCHANGED besideDiff

\* The FileDiff is returned: without lines when either side is binary.
DiffReturn ==
    /\ diffStatus = "diffing"
    /\ DiffIsBinary \/ DiffComplete
    /\ diffStatus' = "returned"
    /\ UNCHANGED <<diffInput, diffCursor, diffCounters, diffLines>>
    /\ UNCHANGED besideDiff

InitDiff ==
    /\ NoRepositoryOpen
    /\ BlameViewAtLoad
    /\ SearchBoxAtLoad
    /\ searchLimitStored = NoItem
    /\ EngineIdle
    /\ diffInput \in [old : Blobs, new : Blobs]
    /\ diffCursor = <<0, 0>>
    /\ diffCounters = [old |-> 0, new |-> 0]
    /\ diffLines = <<>>
    /\ diffStatus = "diffing"
    /\ PanelsAtLoad
    /\ RecentAtLoad(0)

NextDiff ==
    \/ DiffEmitLine
    \/ DiffReturn

SpecDiff == InitDiff /\ [][NextDiff]_vars

\* The old (side = 1) or new (side = 2) line numbers of the lines that carry
\* one, in sequence.
RECURSIVE NumbersOf(_, _)
NumbersOf(lines, side) ==
    IF lines = <<>> THEN <<>>
    ELSE LET line == Head(lines)
             carries == IF side = 1 THEN line.line_type \in {"context", "deletion"}
                        ELSE line.line_type \in {"context", "addition"}
             number == IF side = 1 THEN line.old_line_number ELSE line.new_line_number
         IN  (IF carries THEN <<number>> ELSE <<>>) \o NumbersOf(Tail(lines), side)

IncreasesByOne(numbers) == \A i \in 1..(Len(numbers) - 1) : numbers[i + 1] = numbers[i] + 1

\* C14: in a FileDiff a context line carries an old and a new line number,
\* a deletion only an old one and an addition only a new one; the old
\* numbers over context and deletion lines, and the new numbers over context
\* and addition lines, each increase by exactly 1 from line to line.
C14_DiffLineNumbers ==
    /\ \A i \in 1..Len(diffLines) :
          LET line == diffLines[i] IN
          /\ line.line_type = "context"
                => line.old_line_number # Unset /\ line.new_line_number # Unset
          /\ line.line_type = "deletion"
                => line.old_line_number # Unset /\ line.new_line_number = Unset
          /\ line.line_type = "addition"
                => line.old_line_number = Unset /\ line.new_line_number # Unset
    /\ IncreasesByOne(NumbersOf(diffLines, 1))
    /\ IncreasesByOne(NumbersOf(diffLines, 2))

\* A returned FileDiff has a context line after a deletion and an addition,
\* and a line of each kind after that context line.
C14_Witness ==
    /\ diffStatus = "returned"
    /\ \E i, j, k \in 1..Len(diffLines) :
          /\ i < k /\ j < k
          /\ diffLines[i].line_type = "deletion"
          /\ diffLines[j].line_type = "addition"
          /\ diffLines[k].line_type = "context"
          /\ diffLines[k].old_line_number # diffLines[k].new_line_number

-----------------------------------------------------------------------------
(***************************************************************************)
(* The commit list, the file list and the diff panel (main.js:318-730,     *)
(* 1698-1839, 2100-2135).  A repository is open; the backend answers from  *)
(* the history below, or fails.  A list panel holds the elements attached  *)
(* to it; commitItems and fileItems hold elements whether attached or not. *)
(* Elements are named by their data-commit-id or data-file-path.           *)
(***************************************************************************)
BranchList == {"main", "empty"}

\* get_commits_from_path: the commits of a branch, newest first.
BranchCommits(branchName) ==
    CASE branchName = "main" -> <<CommitIds[1], CommitIds[2], CommitIds[3]>>
      [] OTHER -> <<>>

\* get_commit_changes: the paths a commit changed.
ChangesOf(commitId) ==
    CASE commitId = CommitIds[1] -> <<"f", "g">>
      [] commitId = CommitIds[2] -> <<"g", "logo.png">>
      [] OTHER -> <<>>

\* The characters of a path.
PathText(filePath) ==
    CASE filePath = "f" -> <<"f">>
      [] filePath = "g" -> <<"g">>
      [] filePath = "logo.png" -> <<"l", "o", "g", "o", ".", "p", "n", "g">>
      [] OTHER -> <<>>

\* What the user may type into the file filter.
FilterTexts == {<<>>, <<" ">>, <<"F">>, <<"g">>, <<"g", " ">>}

\* The results a search has left in the overlay.
OverlayResults ==
    << [commit_id |-> CommitIds[1], file_path |-> "", result_type |-> "commit"],
       [commit_id |-> CommitIds[1], file_path |-> "g", result_type |-> "content"],
       [commit_id |-> CommitIds[2], file_path |-> "g", result_type |-> "file"] >>

Directions == {"up", "left", "down", "right", "home", "end"}

ViewModes == {"diff", "blame"}

\* Array.prototype.indexOf, 0-based, -1 when absent.
IndexOf(items, x) ==
    IF \E i \in 1..Len(items) : items[i] = x
    THEN (CHOOSE i \in 1..Len(items) : items[i] = x /\ \A j \in 1..(i - 1) : items[j] # x) - 1
    ELSE -1

Elements(items) == {items[i] : i \in 1..Len(items)}

PanelMessage(message) == [kind |-> "message", data |-> message]
PanelDiff(commitId, filePath) ==
    [kind |-> "diff", data |-> [path |-> filePath, commitId |-> commitId]]

NavRequest(cmd, branchName, commitId, filePath, clickFile) ==
    [cmd |-> cmd, branchName |-> branchName, commitId |-> commitId, filePath |-> filePath,
     clickFile |-> clickFile]

commitVars == <<commitsPanel, commitItems, currentCommitIndex>>
fileListVars == <<fileChangesPanel, allFileItems, filteredFileItems, fileItems>>
blameLoadVars == <<blameCache, blamePending, currentBlameData>>
blameHistory == <<cursor, overlaps, insertOrder, lastLoad, lastPut>>
documentVars == <<searchResultItems, listItemsFirst, navLimit>>

\* document.querySelector(`[data-commit-id="${commitId}"]`) with the commit
\* items attached: "item" when it returns a commit item, "other" when it
\* returns a search result item, "none" when it returns null.
QueryCommitElement(attached, commitId) ==
    LET inList == commitId \in Elements(attached)
        elsewhere == \E i \in 1..Len(searchResultItems) :
                        searchResultItems[i].commit_id = commitId
    IN  IF inList /\ (listItemsFirst \/ ~elsewhere) THEN "item"
        ELSE IF elsewhere THEN "other"
        ELSE "none"

\* An element with data-file-path filePath outside the file list: a search
\* result item, or the open-file button of the diff or blame shown.
FileElsewhere(filePath) ==
    \/ \E i \in 1..Len(searchResultItems) : searchResultItems[i].file_path = filePath
    \/ IF fileDiffPanel.kind \in {"diff", "blame"}
       THEN fileDiffPanel.data.path = filePath
       ELSE FALSE

\* document.querySelector(`[data-file-path="${filePath}"]`)
QueryFileElement(attached, filePath) ==
    LET inList == filePath \in Elements(attached)
    IN  IF inList /\ (listItemsFirst \/ ~FileElsewhere(filePath)) THEN "item"
        ELSE IF FileElsewhere(filePath) THEN "other"
        ELSE "none"

\* loadFileView(filePath) up to its await, in the view mode given.
LoadFileView(filePath, mode, pendingBase) ==
    IF mode = "diff"
    THEN /\ navPending' = pendingBase (+) SetToBag({NavRequest("get_file_diff", "",
                                                    selectedCommit, filePath, "")})
         /\ UNCHANGED <<blameLoadVars, fileDiffPanel>>
    ELSE /\ navPending' = pendingBase
         /\ LoadFileBlame(currentRepoPath, selectedCommit, filePath)

\* selectFile(filePath) up to its await: attached are the file items in the
\* document, items is fileItems and index is currentFileIndex as the caller
\* leaves them.
SelectFile(filePath, attached, items, index, mode, pendingBase) ==
    IF currentRepoPath = Null \/ selectedCommit = Null
    THEN /\ currentFileIndex' = index
         /\ navPending' = pendingBase
         /\ UNCHANGED <<selectedFile, blameLoadVars, fileDiffPanel>>
    ELSE /\ selectedFile' = filePath
         /\ currentFileIndex' =
                IF /\ QueryFileElement(attached, filePath) = "item"
                   /\ IndexOf(items, filePath) # -1
                THEN IndexOf(items, filePath)
                ELSE index
         /\ LoadFileView(filePath, mode, pendingBase)

\* selectCommit(commitId) up to the await in loadFileChanges; clickFile is
\* the file handleSearchResultClick goes on to select, "" otherwise.
SelectCommit(commitId, attached, items, index, clickFile, pendingBase) ==
    IF currentRepoPath = Null
    THEN /\ currentCommitIndex' = index
         /\ navPending' = pendingBase
         /\ UNCHANGED selectedCommit
    ELSE /\ selectedCommit' = commitId
         /\ currentCommitIndex' =
                LET found == QueryCommitElement(attached, commitId) IN
                IF found = "none" THEN -1
                ELSE IF found = "item" /\ IndexOf(items, commitId) # -1
                THEN IndexOf(items, commitId)
                ELSE index
         /\ navPending' = pendingBase (+) SetToBag({NavRequest("get_commit_changes", "",
                                                    commitId, "", clickFile)})

\* displayCommits(commits)
DisplayCommits(commits, pendingBase) ==
    IF commits = <<>>
    THEN /\ commitsPanel' = ListPanel("empty", <<>>)
         /\ commitItems' = <<>>
         /\ currentCommitIndex' = -1
         /\ navPending' = pendingBase
         /\ UNCHANGED selectedCommit
    ELSE /\ commitsPanel' = ListPanel("none", commits)
         /\ commitItems' = commits
         /\ SelectCommit(commits[1], commits, commits, 0, "", pendingBase)

\* displayFileChanges(changes)
DisplayFileChanges(changes, pendingBase) ==
    IF changes = <<>>
    THEN /\ fileChangesPanel' = ListPanel("empty", <<>>)
         /\ allFileItems' = <<>>
         /\ filteredFileItems' = <<>>
         /\ fileItems' = <<>>
         /\ currentFileIndex' = -1
         /\ fileDiffPanel' = PanelMessage("Select a file to view changes")
         /\ navPending' = pendingBase
         /\ UNCHANGED <<selectedFile, blameLoadVars>>
    ELSE /\ fileChangesPanel' = ListPanel("none", changes)
         /\ allFileItems' = changes
         /\ filteredFileItems' = changes
         /\ fileItems' = changes
         /\ SelectFile(changes[1], changes, changes, 0, currentViewMode, pendingBase)

FilterMatches_CaseSensitive(items, filterText) ==
    IF Trim(filterText) = <<>> THEN items
    ELSE SelectSeq(items, LAMBDA item :
            \E i \in 1..(Len(PathText(item)) - Len(filterText) + 1) :
                SubSeq(PathText(item), i, i + Len(filterText) - 1) = filterText)

\* The items of allFileItems a filter text keeps.
FilterMatches(items, filterText) ==
    IF Trim(filterText) = <<>> THEN items
    ELSE SelectSeq(items, LAMBDA item : ContainsIgnoreCase(PathText(item), filterText))

\* filterFiles(filterText)
FilterFiles(filterText) ==
    LET matches == FilterMatches(allFileItems, filterText) IN
    /\ filteredFileItems' = matches
    /\ fileItems' = matches
    /\ IF matches # <<>>
       THEN SelectFile(matches[1], fileChangesPanel.items, matches, 0, currentViewMode,
                       navPending)
       ELSE /\ currentFileIndex' = -1
            /\ fileDiffPanel' = PanelMessage("No files match the filter")
            /\ UNCHANGED <<selectedFile, navPending, blameLoadVars>>

\* The index handleFileNavigation and handleCommitNavigation compute.
NavigationIndex(direction, index, length) ==
    CASE direction \in {"up", "left"} -> IF index <= 0 THEN length - 1 ELSE index - 1
      [] direction \in {"down", "right"} -> IF index >= length - 1 THEN 0 ELSE index + 1
      [] direction = "home" -> 0
      [] direction = "end" -> length - 1

\* The steps of the panels.  MaxNavInFlight bounds the requests and timers
\* outstanding when the user acts.
NavMayIssue ==
    BagCardinality(navPending) + BagCardinality(navTimers) + BagCardinality(blamePending)
        < navLimit

NavEvent(kind, cmd, shown, index) ==
    [kind |-> kind, cmd |-> cmd, shown |-> shown, index |-> index]

\* The history of the search result clicked is kept while the click's own
\* requests are the only ones under way: it is dropped when the click met a
\* request in flight, and when the user acts again.
NoClick == [any |-> FALSE, commitId |-> "", filePath |-> "", type |-> ""]

\* Where a key is to take the selection of a non-empty list of the length,
\* the current index being index: down and right go one item on and from
\* the last item to the first, up and left go one item back and from the
\* first item or from no selection to the last, Home goes to the first item
\* and End to the last.
KeyTarget(direction, index, length) ==
    CASE direction \in {"down", "right"} /\ index = length - 1 -> 0
      [] direction \in {"down", "right"} /\ index # length - 1 -> index + 1
      [] direction \in {"up", "left"} /\ index \in {-1, 0} -> length - 1
      [] direction \in {"up", "left"} /\ index \notin {-1, 0} -> index - 1
      [] direction = "home" -> 0
      [] direction = "end" -> length - 1

\* A key of a list: the history keeps where the key is to take the selection.
KeyEvent(kind, direction, items, index) ==
    /\ navEvent' = NavEvent(kind, "", <<>>, KeyTarget(direction, index, Len(items)))
    /\ navClick' = NoClick

\* Any other user event but a click on a search result.
UserEvent ==
    /\ navEvent' = NavEvent("user", "", <<>>, -1)
    /\ navClick' = NoClick

\* A response that arrived, or a timer that ran.
SystemEvent ==
    /\ navEvent' = NavEvent("system", "", <<>>, -1)
    /\ UNCHANGED navClick

\* An input event of the file filter, and the text it gave to filterFiles.
FilterEvent(filterText) ==
    /\ navEvent' = NavEvent("filter", "", filterText, -1)
    /\ navClick' = NoClick

\* A request that failed, and the items its panel showed.
FailureEvent(cmd, shown) ==
    /\ navEvent' = NavEvent("rejected", cmd, shown, -1)
    /\ UNCHANGED navClick

\* The branch selector: selectBranch(branchName) calls loadCommits.
SelectBranch(branchName) ==
    /\ currentRepoPath # Null
    /\ NavMayIssue
    /\ currentBranch' = branchName
    /\ navPending' = navPending (+) SetToBag({NavRequest("get_commits_from_path",
                                               branchName, "", "", "")})
    /\ UserEvent
    /\ UNCHANGED <<currentRepoPath, selectedCommit, selectedFile, blameLoadVars,
                   fileDiffPanel, blameHistory>>
    /\ UNCHANGED <<commitVars, fileListVars, currentFileIndex, currentViewMode,
                   documentVars, navTimers>>
    /\ UNCHANGED besideBranch

\* get_commits_from_path answers: displayCommits.
CommitsResolved ==
    \E req \in BagToSet(navPending) :
        /\ req.cmd = "get_commits_from_path"
        /\ DisplayCommits(BranchCommits(req.branchName), navPending (-) SetToBag({req}))
        /\ SystemEvent
        /\ UNCHANGED <<currentRepoPath, selectedFile, blameLoadVars, fileDiffPanel,
                       blameHistory>>
        /\ UNCHANGED <<fileListVars, currentFileIndex, currentViewMode, documentVars,
                       navTimers>>
        /\ UNCHANGED besideNav

\* get_commits_from_path fails: the catch of loadCommits.
CommitsRejected ==
    \E req \in BagToSet(navPending) :
        /\ req.cmd = "get_commits_from_path"
        /\ commitsPanel' = ListPanel("error", <<>>)
        /\ navPending' = navPending (-) SetToBag({req})
        /\ FailureEvent(req.cmd, commitsPanel.items)
        /\ UNCHANGED <<currentRepoPath, selectedCommit, selectedFile, blameLoadVars,
                       fileDiffPanel, blameHistory>>
        /\ UNCHANGED <<commitItems, currentCommitIndex, fileListVars, currentFileIndex,
                       currentViewMode, documentVars, navTimers>>
        /\ UNCHANGED besideNav

\* A click on the i-th commit item shown.
ClickCommit(i) ==
    /\ i \in 1..Len(commitsPanel.items)
    /\ NavMayIssue
    /\ SelectCommit(commitsPanel.items[i], commitsPanel.items, commitItems, i - 1, "",
                    navPending)
    /\ UserEvent
    /\ UNCHANGED <<currentRepoPath, selectedFile, blameLoadVars, fileDiffPanel,
                   blameHistory>>
    /\ UNCHANGED <<commitsPanel, commitItems, fileListVars, currentFileIndex,
                   currentViewMode, documentVars, navTimers>>
    /\ UNCHANGED besideNav

\* navigateToCommitIndex(index)
NavigateToCommitIndex(index) ==
    IF commitItems = <<>> \/ index < 0 \/ index >= Len(commitItems)
    THEN UNCHANGED <<currentCommitIndex, selectedCommit, navPending>>
    ELSE SelectCommit(commitItems[index + 1], commitsPanel.items, commitItems, index, "",
                      navPending)

\* An arrow, Home or End key in the commits sidebar.
CommitKey(direction) ==
    /\ commitItems # <<>>
    /\ NavMayIssue
    /\ NavigateToCommitIndex(NavigationIndex(direction, currentCommitIndex,
                                             Len(commitItems)))
    /\ KeyEvent("commitKey", direction, commitItems, currentCommitIndex)
    /\ UNCHANGED <<currentRepoPath, selectedFile, blameLoadVars, fileDiffPanel,
                   blameHistory>>
    /\ UNCHANGED <<commitsPanel, commitItems, fileListVars, currentFileIndex,
                   currentViewMode, documentVars, navTimers>>
    /\ UNCHANGED besideNav

\* Enter or space in the commits sidebar.
CommitEnter ==
    /\ commitItems # <<>>
    /\ NavMayIssue
    /\ currentCommitIndex >= 0 /\ currentCommitIndex < Len(commitItems)
    /\ SelectCommit(commitItems[currentCommitIndex + 1], commitsPanel.items, commitItems,
                    currentCommitIndex, "", navPending)
    /\ UserEvent
    /\ UNCHANGED <<currentRepoPath, selectedFile, blameLoadVars, fileDiffPanel,
                   blameHistory>>
    /\ UNCHANGED <<commitsPanel, commitItems, fileListVars, currentFileIndex,
                   currentViewMode, documentVars, navTimers>>
    /\ UNCHANGED besideNav

\* The setTimeout of handleSearchResultClick, set once selectCommit is over.
TimerAfterSelectCommit(req) ==
    navTimers' = IF req.clickFile # ""
                 THEN navTimers (+) SetToBag({req.clickFile})
                 ELSE navTimers

\* get_commit_changes answers: displayFileChanges.
ChangesResolved ==
    \E req \in BagToSet(navPending) :
        /\ req.cmd = "get_commit_changes"
        /\ DisplayFileChanges(ChangesOf(req.commitId), navPending (-) SetToBag({req}))
        /\ TimerAfterSelectCommit(req)
        /\ SystemEvent
        /\ UNCHANGED <<currentRepoPath, selectedCommit, blameHistory>>
        /\ UNCHANGED <<commitVars, currentViewMode, documentVars>>
        /\ UNCHANGED besideNav

\* get_commit_changes fails: the catch of loadFileChanges.
ChangesRejected ==
    \E req \in BagToSet(navPending) :
        /\ req.cmd = "get_commit_changes"
        /\ fileChangesPanel' = ListPanel("error", <<>>)
        /\ navPending' = navPending (-) SetToBag({req})
        /\ TimerAfterSelectCommit(req)
        /\ FailureEvent(req.cmd, fileChangesPanel.items)
        /\ UNCHANGED <<currentRepoPath, selectedCommit, selectedFile, blameLoadVars,
                       fileDiffPanel, blameHistory>>
        /\ UNCHANGED <<commitVars, allFileItems, filteredFileItems, fileItems,
                       currentFileIndex, currentViewMode, documentVars>>
        /\ UNCHANGED besideNav

\* A click on the i-th file item visible.
ClickFile(i) ==
    /\ i \in 1..Len(filteredFileItems)
    /\ filteredFileItems[i] \in Elements(fileChangesPanel.items)
    /\ NavMayIssue
    /\ SelectFile(filteredFileItems[i], fileChangesPanel.items, fileItems,
                  IndexOf(filteredFileItems, filteredFileItems[i]), currentViewMode,
                  navPending)
    /\ UserEvent
    /\ UNCHANGED <<currentRepoPath, selectedCommit, blameHistory>>
    /\ UNCHANGED <<commitVars, fileListVars, currentViewMode, documentVars, navTimers>>
    /\ UNCHANGED besideNav

\* navigateToFileIndex(index)
NavigateToFileIndex(index) ==
    IF fileItems = <<>> \/ index < 0 \/ index >= Len(fileItems)
    THEN UNCHANGED <<currentFileIndex, selectedFile, navPending, blameLoadVars,
                     fileDiffPanel>>
    ELSE SelectFile(fileItems[index + 1], fileChangesPanel.items, fileItems, index,
                    currentViewMode, navPending)

\* An arrow, Home or End key in the file panel.
FileKey(direction) ==
    /\ fileItems # <<>>
    /\ NavMayIssue
    /\ NavigateToFileIndex(NavigationIndex(direction, currentFileIndex, Len(fileItems)))
    /\ KeyEvent("fileKey", direction, fileItems, currentFileIndex)
    /\ UNCHANGED <<currentRepoPath, selectedCommit, blameHistory>>
    /\ UNCHANGED <<commitVars, fileListVars, currentViewMode, documentVars, navTimers>>
    /\ UNCHANGED besideNav

\* Enter or space in the file panel.
FileEnter ==
    /\ fileItems # <<>>
    /\ NavMayIssue
    /\ currentFileIndex >= 0 /\ currentFileIndex < Len(fileItems)
    /\ SelectFile(fileItems[currentFileIndex + 1], fileChangesPanel.items, fileItems,
                  currentFileIndex, currentViewMode, navPending)
    /\ UserEvent
    /\ UNCHANGED <<currentRepoPath, selectedCommit, blameHistory>>
    /\ UNCHANGED <<commitVars, fileListVars, currentViewMode, documentVars, navTimers>>
    /\ UNCHANGED besideNav

\* An input event of the file filter.
FilterInput(filterText) ==
    /\ NavMayIssue
    /\ FilterFiles(filterText)
    /\ FilterEvent(filterText)
    /\ UNCHANGED <<currentRepoPath, selectedCommit, blameHistory>>
    /\ UNCHANGED <<commitVars, fileChangesPanel, allFileItems, currentViewMode,
                   documentVars, navTimers>>
    /\ UNCHANGED besideNav

\* A click on the diff or the blame button (initializeBlameView).
ClickViewButton(mode) ==
    /\ currentViewMode # mode
    /\ NavMayIssue
    /\ currentViewMode' = mode
    /\ IF selectedFile # Null /\ currentRepoPath # Null /\ selectedCommit # Null
       THEN LoadFileView(selectedFile, mode, navPending)
       ELSE UNCHANGED <<navPending, blameLoadVars, fileDiffPanel>>
    /\ UserEvent
    /\ UNCHANGED <<currentRepoPath, selectedCommit, selectedFile, blameHistory>>
    /\ UNCHANGED <<commitVars, fileListVars, currentFileIndex, documentVars, navTimers>>
    /\ UNCHANGED besideNav

\* get_file_diff answers: displayFileDiff.
FileDiffResolved ==
    \E req \in BagToSet(navPending) :
        /\ req.cmd = "get_file_diff"
        /\ fileDiffPanel' = PanelDiff(req.commitId, req.filePath)
        /\ navPending' = navPending (-) SetToBag({req})
        /\ SystemEvent
        /\ UNCHANGED <<currentRepoPath, selectedCommit, selectedFile, blameLoadVars,
                       blameHistory>>
        /\ UNCHANGED <<commitVars, fileListVars, currentFileIndex, currentViewMode,
                       documentVars, navTimers>>
        /\ UNCHANGED besideNav

\* get_file_diff fails: the catch of loadFileDiff.
FileDiffRejected ==
    \E req \in BagToSet(navPending) :
        /\ req.cmd = "get_file_diff"
        /\ fileDiffPanel' = PanelError(req.filePath)
        /\ navPending' = navPending (-) SetToBag({req})
        /\ FailureEvent(req.cmd, <<>>)
        /\ UNCHANGED <<currentRepoPath, selectedCommit, selectedFile, blameLoadVars,
                       blameHistory>>
        /\ UNCHANGED <<commitVars, fileListVars, currentFileIndex, currentViewMode,
                       documentVars, navTimers>>
        /\ UNCHANGED besideNav

\* A click on the i-th search result: handleSearchResultClick up to the
\* await in selectCommit, then hideSearchResults.
ClickSearchResult(i) ==
    /\ i \in 1..Len(searchResultItems)
    /\ searchOverlay.shown
    /\ NavMayIssue
    /\ LET result == searchResultItems[i]
           clickFile == IF result.file_path # "" /\ result.result_type # "commit"
                        THEN result.file_path ELSE ""
       IN  /\ SelectCommit(result.commit_id, commitsPanel.items, commitItems,
                           currentCommitIndex, clickFile, navPending)
           /\ navTimers' = IF currentRepoPath = Null /\ clickFile # ""
                           THEN navTimers (+) SetToBag({clickFile})
                           ELSE navTimers
           /\ navClick' = IF BagCardinality(navPending) + BagCardinality(navTimers)
                                + BagCardinality(blamePending) = 0
                           THEN [any |-> TRUE, commitId |-> result.commit_id,
                                 filePath |-> result.file_path,
                                 type |-> result.result_type]
                           ELSE NoClick
    /\ navEvent' = NavEvent("user", "", <<>>, -1)
    /\ searchOverlay' = HideSearchResults(searchOverlay)
    /\ UNCHANGED <<currentRepoPath, selectedFile, blameLoadVars, fileDiffPanel,
                   blameHistory>>
    /\ UNCHANGED <<commitsPanel, commitItems, fileListVars, currentFileIndex,
                   currentViewMode, documentVars>>
    /\ UNCHANGED <<searchInputValue, searchTimeout, timers, searchPending, isSearching,
                   searchLimitStored, sinceInput, burstQuery, burstEvents, burstIssued,
                   lastEvent, lastIssued>>
    /\ UNCHANGED <<engineVars, diffVars, recentVars, sidebarVars>>

\* The setTimeout callback of handleSearchResultClick runs.
SearchResultTimerFired ==
    \E filePath \in BagToSet(navTimers) :
        /\ navTimers' = navTimers (-) SetToBag({filePath})
        /\ LET fileElement == QueryFileElement(fileChangesPanel.items, filePath)
               fileIndex == IF fileElement = "item"
                            THEN IndexOf(filteredFileItems, filePath) ELSE -1
           IN  IF fileElement = "none"
               THEN UNCHANGED <<currentFileIndex, selectedFile, navPending, blameLoadVars,
                                fileDiffPanel>>
               ELSE SelectFile(filePath, fileChangesPanel.items, fileItems,
                               IF fileIndex # -1 THEN fileIndex ELSE currentFileIndex,
                               currentViewMode, navPending)
        /\ SystemEvent
        /\ UNCHANGED <<currentRepoPath, selectedCommit, blameHistory>>
        /\ UNCHANGED <<commitVars, fileListVars, currentViewMode, documentVars>>
        /\ UNCHANGED besideNav

\* A repository is open and nothing is loaded yet; a search has left its
\* results in the overlay.  The view mode stays 'diff' under SpecNav.
InitNav ==
    /\ currentRepoPath = RepoPaths[1]
    /\ selectedCommit = Null
    /\ selectedFile = Null
    /\ BlameViewAtLoad
    /\ searchInputValue = <<>>
    /\ searchTimeout = Null
    /\ timers = {}
    /\ searchPending = EmptyBag
    /\ isSearching = FALSE
    /\ sinceInput = DEBOUNCE_MS
    /\ burstQuery = <<>>
    /\ burstEvents = 0
    /\ burstIssued = <<>>
    /\ lastEvent = [kind |-> "load", query |-> <<>>]
    /\ lastIssued = [any |-> FALSE, req |-> Null, stored |-> Null]
    /\ searchLimitStored = NoItem
    /\ EngineIdle
    /\ DiffIdle
    /\ RecentAtLoad(0)
    /\ commitsPanel = ListPanel("placeholder", <<>>)
    /\ commitItems = <<>>
    /\ currentCommitIndex = -1
    /\ fileChangesPanel = ListPanel("placeholder", <<>>)
    /\ allFileItems = <<>>
    /\ filteredFileItems = <<>>
    /\ fileItems = <<>>
    /\ currentFileIndex = -1
    /\ currentViewMode = "diff"
    /\ searchResultItems = OverlayResults
    /\ searchOverlay = [shown |-> TRUE, kind |-> "results", query |-> <<"g">>]
    /\ listItemsFirst \in BOOLEAN
    /\ navLimit = MaxNavInFlight
    /\ navPending = EmptyBag
    /\ navTimers = EmptyBag
    /\ navEvent = NavEvent("load", "", <<>>, -1)
    /\ navClick = [any |-> FALSE, commitId |-> "", filePath |-> "", type |-> ""]
    /\ SidebarAtLoad

NextNav ==
    \/ \E branchName \in BranchList : SelectBranch(branchName)
    \/ CommitsResolved
    \/ CommitsRejected
    \/ \E i \in 1..Len(CommitIds) : ClickCommit(i)
    \/ \E direction \in Directions : CommitKey(direction)
    \/ CommitEnter
    \/ ChangesResolved
    \/ ChangesRejected
    \/ \E i \in 1..Len(FilePaths) : ClickFile(i)
    \/ \E direction \in Directions : FileKey(direction)
    \/ FileEnter
    \/ \E filterText \in FilterTexts : FilterInput(filterText)
    \/ FileDiffResolved
    \/ FileDiffRejected
    \/ \E i \in 1..Len(OverlayResults) : ClickSearchResult(i)
    \/ SearchResultTimerFired

SpecNav == InitNav /\ [][NextNav]_vars

-----------------------------------------------------------------------------
(***************************************************************************)
(* Claims about the panels, checked under SpecNav.                         *)
(***************************************************************************)

\* C15: right after a backend request has failed, the panel it was for
\* shows the error message and still shows the items it showed before the
\* failure, and these items are the ones the navigation state of the panel
\* holds, the current index lying within them.
C15_FailureLeavesPanelIntact ==
    navEvent.kind = "rejected" =>
        /\ navEvent.cmd = "get_commits_from_path" =>
              /\ commitsPanel.message = "error"
              /\ commitsPanel.items = navEvent.shown
              /\ commitsPanel.items = commitItems
              /\ currentCommitIndex \in -1..(Len(commitItems) - 1)
        /\ navEvent.cmd = "get_commit_changes" =>
              /\ fileChangesPanel.message = "error"
              /\ fileChangesPanel.items = navEvent.shown
              /\ fileChangesPanel.items = allFileItems
              /\ currentFileIndex \in -1..(Len(fileItems) - 1)
        /\ navEvent.cmd = "get_file_diff" => fileDiffPanel.kind = "error"

\* Every request and timer of the panels is done.
NavQuiescent == navPending = EmptyBag /\ navTimers = EmptyBag

\* C17: after a click on a search result with commit id C, made when no
\* request was under way and followed by no other user action, once every
\* request the click has triggered is done: selectedCommit is C, and for a
\* file or content result with path P, selectedFile is P and the diff panel
\* shows the diff of P at C.  States that show an error are left aside.
C17_SearchResultClickNavigates ==
    (/\ navClick.any
     /\ NavQuiescent
     /\ fileChangesPanel.message # "error"
     /\ fileDiffPanel.kind # "error") =>
        /\ selectedCommit = navClick.commitId
        /\ (navClick.type # "commit" /\ navClick.filePath # "") =>
              /\ selectedFile = navClick.filePath
              /\ fileDiffPanel.kind = "diff"
              /\ fileDiffPanel.data.path = navClick.filePath
              /\ fileDiffPanel.data.commitId = navClick.commitId

-----------------------------------------------------------------------------
\* C16: isSearching is true exactly while a global_search request is in
\* flight, whether searches overlap, succeed or fail.
C16_IsSearchingWhileInFlight ==
    isSearching <=> BagCardinality(searchPending) > 0

-----------------------------------------------------------------------------
(***************************************************************************)
(* Opening repositories (main.js:1578-1696, 2415-2425).  A repository is   *)
(* opened through the directory dialog, by a click in the recent-          *)
(* repositories menu, or by loadLastRepository when the page has loaded.   *)
(* localStorage persists from one session to the next, so a session starts *)
(* with what earlier ones have stored.                                     *)
(***************************************************************************)

\* const MAX_RECENT_REPOS = 10
MAX_RECENT_REPOS == 10

\* Opens that got a path, per session, and opens of earlier sessions.
MaxOpens == 6
PreviousOpens == 8
\* Directory dialogs open at once.
MaxDialogs == 1

\* function getRecentRepositories(): stored ? JSON.parse(stored) : []
GetRecentRepositories(item) == IF item.present THEN item.value ELSE <<>>

\* function saveRecentRepositories(repos)
SaveRecentRepositories(repos) == Json(repos)

AddToRecentRepositories_NoSlice(item, repoPath, time) ==
    LET recentRepos == GetRecentRepositories(item)
        filtered == SelectSeq(recentRepos, LAMBDA repo : repo.path # repoPath)
    IN SaveRecentRepositories(<<RecentEntry(repoPath, time)>> \o filtered)

\* function addToRecentRepositories(repoPath): the item it stores.  The
\* entry of the path is removed, a new one is put first, and the list is cut
\* to MAX_RECENT_REPOS.
AddToRecentRepositories(item, repoPath, time) ==
    LET recentRepos == GetRecentRepositories(item)
        filtered == SelectSeq(recentRepos, LAMBDA repo : repo.path # repoPath)
        unshifted == <<RecentEntry(repoPath, time)>> \o filtered
    IN SaveRecentRepositories(
           IF Len(unshifted) > MAX_RECENT_REPOS
           THEN SubSeq(unshifted, 1, MAX_RECENT_REPOS)
           ELSE unshifted)

\* The history of an openRepository call that has its answer: whether a
\* path was selected, and the path the last call that selected one was given.
RepoEvent(kind, path) == [kind |-> kind, path |-> path]

OpenRepository_CancelClears(selected, dialogs) ==
    /\ dialogsOpen' = dialogs
    /\ IF selected # Null /\ selected # ""
       THEN /\ now < MaxOpens
            /\ now' = now + 1
            /\ currentRepoPath' = selected
            /\ lastRepoItem' = StoredPath(selected)
            /\ recentReposItem' =
                  AddToRecentRepositories(recentReposItem, selected, now + 1)
            /\ repoEvent' = RepoEvent("opened", selected)
       ELSE /\ repoEvent' = RepoEvent("cancelled", repoEvent.path)
            /\ currentRepoPath' = selected
            /\ UNCHANGED <<now, lastRepoItem, recentReposItem>>

\* async function openRepository(repoPath), from the point where selected is
\* known: null when the dialog was cancelled.  loadGitBranches, which it
\* awaits last, fills the branch selector and touches nothing modelled here.
OpenRepository(selected, dialogs) ==
    /\ dialogsOpen' = dialogs
    /\ IF selected # Null /\ selected # ""
       THEN /\ now < MaxOpens
            /\ now' = now + 1
            /\ currentRepoPath' = selected
            /\ lastRepoItem' = StoredPath(selected)
            /\ recentReposItem' =
                  AddToRecentRepositories(recentReposItem, selected, now + 1)
            /\ repoEvent' = RepoEvent("opened", selected)
       ELSE /\ repoEvent' = RepoEvent("cancelled", repoEvent.path)
            /\ UNCHANGED <<now, currentRepoPath, lastRepoItem, recentReposItem>>

\* The menu-open-repo event (main.js:2431-2433): openRepository() opens the
\* directory dialog and awaits the user's choice.
OpenDialog ==
    /\ dialogsOpen < MaxDialogs
    /\ dialogsOpen' = dialogsOpen + 1
    /\ UNCHANGED <<currentRepoPath, recentReposItem, lastRepoItem, now, pathsSeen,
                   restored, repoEvent>>
    /\ UNCHANGED besideRecent

\* The user picks, in the dialog, a folder not opened before.
DialogPicksFolder ==
    /\ dialogsOpen > 0
    /\ pathsSeen < Len(RepositoryFolders)
    /\ pathsSeen' = pathsSeen + 1
    /\ OpenRepository(RepositoryFolders[pathsSeen + 1].path, dialogsOpen - 1)
    /\ UNCHANGED restored
    /\ UNCHANGED besideRecent

\* The user cancels the dialog: open() resolves to null.
DialogCancelled ==
    /\ dialogsOpen > 0
    /\ OpenRepository(Null, dialogsOpen - 1)
    /\ UNCHANGED <<pathsSeen, restored>>
    /\ UNCHANGED besideRecent

\* A click on an item of the recent-repositories menu (main.js:1637-1644),
\* which updateRecentRepositoriesMenu builds from the stored list.
ClickRecentRepository(i) ==
    /\ i \in DOMAIN GetRecentRepositories(recentReposItem)
    /\ OpenRepository(GetRecentRepositories(recentReposItem)[i].path, dialogsOpen)
    /\ UNCHANGED <<pathsSeen, restored>>
    /\ UNCHANGED besideRecent

\* async function loadLastRepository(), which runs once after the page has
\* loaded.
LoadLastRepository ==
    /\ ~restored
    /\ restored' = TRUE
    /\ IF lastRepoItem.present /\ lastRepoItem.path # ""
       THEN OpenRepository(lastRepoItem.path, dialogsOpen)
       ELSE UNCHANGED <<currentRepoPath, recentReposItem, lastRepoItem, now,
                        dialogsOpen, repoEvent>>
    /\ UNCHANGED pathsSeen
    /\ UNCHANGED besideRecent

\* The items of the menu the user clicks: the first, the second and the last.
MenuItemsClicked ==
    {1, 2, Len(GetRecentRepositories(recentReposItem))}

InitRecent ==
    /\ NoRepositoryOpen
    /\ BlameViewAtLoad
    /\ SearchBoxAtLoad
    /\ searchLimitStored = NoItem
    /\ EngineIdle
    /\ DiffIdle
    /\ PanelsAtLoad
    /\ \E n \in {0, PreviousOpens} : RecentAtLoad(n)

NextRecent ==
    \/ OpenDialog
    \/ DialogPicksFolder
    \/ DialogCancelled
    \/ \E i \in MenuItemsClicked : ClickRecentRepository(i)
    \/ LoadLastRepository

SpecRecent == InitRecent /\ [][NextRecent]_vars

\* The stored list, and the path at its head.
RecentRepos == GetRecentRepositories(recentReposItem)
RecentHead == IF RecentRepos = <<>> THEN Null ELSE RecentRepos[1].path

OpenedRepository == <<lastRepoItem, RecentHead, currentRepoPath>>

-----------------------------------------------------------------------------
\* C20: the current index of the commit list and of the file list stays
\* within -1 .. length-1, and a navigation key pressed over a non-empty list
\* leaves the current index where the key is to take it: one item on or back
\* with wrap-around, the last item from no selection, the first item for
\* Home and the last for End.
C20_KeysWrapAndStayInList ==
    /\ currentCommitIndex \in -1..(Len(commitItems) - 1)
    /\ currentFileIndex \in -1..(Len(fileItems) - 1)
    /\ navEvent.kind = "commitKey" => currentCommitIndex = navEvent.index
    /\ navEvent.kind = "fileKey" => currentFileIndex = navEvent.index

-----------------------------------------------------------------------------
\* The file filter at work while branches, commits and files are selected
\* with the mouse and the lists load, succeed or fail.
NextFilter ==
    \/ \E branchName \in BranchList : SelectBranch(branchName)
    \/ CommitsResolved
    \/ CommitsRejected
    \/ \E i \in 1..Len(CommitIds) : ClickCommit(i)
    \/ ChangesResolved
    \/ ChangesRejected
    \/ \E i \in 1..Len(FilePaths) : ClickFile(i)
    \/ \E filterText \in FilterTexts : FilterInput(filterText)
    \/ FileDiffResolved
    \/ FileDiffRejected

SpecFilter == InitNav /\ [][NextFilter]_vars

\* The same letter, whatever its case.
SameLetter(c, d) ==
    \/ c = d
    \/ \E pair \in {<<"A", "a">>, <<"B", "b">>, <<"F", "f">>} :
          {c, d} = {pair[1], pair[2]}

\* The path holds the text at some offset, letter for letter.
PathContains(filePath, text) ==
    \E offset \in 0..(Len(PathText(filePath)) - Len(text)) :
        \A i \in 1..Len(text) : SameLetter(PathText(filePath)[offset + i], text[i])

\* The text is empty or white space only.
Blank(text) == \A i \in 1..Len(text) : text[i] = " "

\* The positions of allFileItems a filter text keeps, in ascending order.
RECURSIVE KeptFrom(_, _, _)
KeptFrom(items, text, i) ==
    IF i > Len(items) THEN <<>>
    ELSE IF Blank(text) \/ PathContains(items[i], text)
    THEN <<items[i]>> \o KeptFrom(items, text, i + 1)
    ELSE KeptFrom(items, text, i + 1)

\* C21: after filterFiles(t), filteredFileItems and fileItems are the items
\* of allFileItems whose path contains t case-insensitively, in their
\* original order, all of them when t is empty or white space only; and
\* filtering does not change allFileItems.
C21_FilterKeepsMatchingItems ==
    /\ [](navEvent.kind = "filter" =>
             /\ filteredFileItems = KeptFrom(allFileItems, navEvent.shown, 1)
             /\ fileItems = KeptFrom(allFileItems, navEvent.shown, 1))
    /\ [][navEvent'.kind = "filter" => allFileItems' = allFileItems]_vars

\* The filter "F" has reduced a list of two files to the file "f".
C21_Witness ==
    /\ navEvent.kind = "filter"
    /\ navEvent.shown = <<"F">>
    /\ Len(allFileItems) = 2
    /\ fileItems = <<"f">>

-----------------------------------------------------------------------------
\* The search is dismissed: Escape has emptied the search input, or the last
\* input event left fewer than 2 characters in it, and no input of at least
\* 2 characters has followed.
SearchDismissed == TooShort(searchInputValue)

\* A step issues a global_search request.
IssuesSearch == BagCardinality(searchPending') > BagCardinality(searchPending)

\* C22: while the search is dismissed the results overlay is not shown and
\* no global_search request is issued, whatever timer was pending or request
\* in flight when it was dismissed.
C22_DismissedSearchStaysQuiet ==
    /\ [](SearchDismissed => ~searchOverlay.shown)
    /\ [][SearchDismissed' => ~IssuesSearch]_vars

-----------------------------------------------------------------------------
(***************************************************************************)
(* The panels under a user who does not wait: branches, commits and files  *)
(* are selected with the mouse and with Enter while up to MaxRaceInFlight  *)
(* requests are outstanding; the responses arrive in any order and none    *)
(* fails.  The search overlay is hidden and holds no results.              *)
(***************************************************************************)
InitRace ==
    /\ currentRepoPath = RepoPaths[1]
    /\ selectedCommit = Null
    /\ selectedFile = Null
    /\ BlameViewAtLoad
    /\ SearchBoxAtLoad
    /\ searchLimitStored = NoItem
    /\ EngineIdle
    /\ DiffIdle
    /\ ListsAtLoad
    /\ navLimit = MaxRaceInFlight
    /\ RecentAtLoad(0)

NextRace ==
    \/ \E branchName \in BranchList : SelectBranch(branchName)
    \/ CommitsResolved
    \/ \E i \in 1..Len(CommitIds) : ClickCommit(i)
    \/ ChangesResolved
    \/ \E i \in 1..Len(FilePaths) : ClickFile(i)
    \/ FileEnter
    \/ FileDiffResolved

SpecRace == InitRace /\ [][NextRace]_vars

\* C23: once no request is in flight, the file list held in allFileItems is
\* the change list of the commit in selectedCommit.
C23_FileListOfSelectedCommit ==
    (NavQuiescent /\ selectedCommit # Null) =>
        allFileItems = ChangesOf(selectedCommit)

\* C24: every get_file_diff and get_file_blame request in flight pairs a
\* commit with a file of that commit's change list.
C24_RequestsPairCommitWithItsFile ==
    /\ \A req \in BagToSet(navPending) :
          req.cmd = "get_file_diff" =>
              req.filePath \in Elements(ChangesOf(req.commitId))
    /\ \A req \in BagToSet(blamePending) :
          req.filePath \in Elements(ChangesOf(req.commitId))

-----------------------------------------------------------------------------
\* The same user with the diff and blame buttons at hand, on the commit
\* that is selected when the branch has loaded.
NextView ==
    \/ \E branchName \in BranchList : SelectBranch(branchName)
    \/ CommitsResolved
    \/ ChangesResolved
    \/ \E i \in 1..Len(FilePaths) : ClickFile(i)
    \/ \E mode \in ViewModes : ClickViewButton(mode)
    \/ FileDiffResolved
    \/ BlameResolved

SpecView == InitRace /\ [][NextView]_vars

\* No request of the panels or of the blame view is in flight.
ViewQuiescent == NavQuiescent /\ blamePending = EmptyBag

\* C25: once no request is in flight, a diff or blame shown in the diff
\* panel is the view of the current mode, the blame in 'blame' mode and the
\* diff in 'diff' mode, and it is that of selectedFile.
C25_PanelShowsCurrentView ==
    (ViewQuiescent /\ fileDiffPanel.kind \in {"diff", "blame"}) =>
        /\ fileDiffPanel.kind = currentViewMode
        /\ fileDiffPanel.data.path = selectedFile

-----------------------------------------------------------------------------
(***************************************************************************)
(* The sidebar tabs (main.js:2511-2658, 2737-2800, 2854-2900, 3039-3060).  *)
(* A repository is open; the user selects branches, clicks commits and     *)
(* switches between the Commits, Staged and Stash tabs.                    *)
(***************************************************************************)
SidebarModes == {"commits", "staged", "stash"}

\* Invocations of the sidebar the user leaves unanswered before acting again.
MaxSidebarInFlight == 2

\* The branch get_branches reports with is_current (main.js:252).
CheckedOutBranch == "main"

\* get_staged_changes and get_stashes of the open repository.
StagedChanges == <<FilePaths[1]>>
Stashes == <<"stash@{0}">>

\* value.is_current as JavaScript reads it (main.js:2563): a branch object
\* {name, is_current} carries the field; a string has no such property, the
\* read gives undefined, which is falsy.
IsCurrentOf(value) == IF value \in STRING THEN FALSE ELSE value.is_current

SidebarRequest(cmd, from) == [cmd |-> cmd, from |-> from, path |-> currentRepoPath]

\* loadStagedChanges() and updateFileChangesForStaged(), up to their awaits
LoadStaged ==
    IF currentRepoPath = Null THEN EmptyBag
    ELSE SetToBag({SidebarRequest("get_staged_changes", "loadStagedChanges")})
         (+) SetToBag({SidebarRequest("get_staged_changes", "updateFileChangesForStaged")})

\* loadStashes(), up to its await
LoadStashes ==
    IF currentRepoPath = Null THEN EmptyBag
    ELSE SetToBag({SidebarRequest("get_stashes", "loadStashes")})

\* switchSidebarMode(mode), from a click on a sidebar tab
SwitchSidebarMode(mode) ==
    /\ currentSidebarMode # mode
    /\ BagCardinality(sidebarPending) < MaxSidebarInFlight
    /\ currentSidebarMode' = mode
    /\ LET issued == IF mode = "staged" /\ currentBranch # Null /\ IsCurrentOf(currentBranch)
                     THEN LoadStaged
                     ELSE IF mode = "stash" THEN LoadStashes
                     ELSE EmptyBag
       IN /\ sidebarPending' = sidebarPending (+) issued
          /\ sidebarEvent' = [from |-> currentSidebarMode, to |-> mode,
                              repoOpen |-> currentRepoPath # Null,
                              branch |-> currentBranch, issued |-> issued]
    /\ IF mode = "staged" /\ currentBranch # Null /\ IsCurrentOf(currentBranch)
       THEN UNCHANGED <<fileChangesPanel, fileDiffPanel, selectedCommit>>
       ELSE IF mode = "stash"
       THEN /\ fileChangesPanel' = ListPanel("stash", <<>>)
            /\ fileDiffPanel' = PanelMessage("Select a file to view changes")
            /\ UNCHANGED selectedCommit
       ELSE IF mode = "commits"
       THEN /\ fileChangesPanel' = ListPanel("placeholder", <<>>)
            /\ fileDiffPanel' = PanelMessage("Select a file to view changes")
            /\ selectedCommit' = Null
       ELSE UNCHANGED <<fileChangesPanel, fileDiffPanel, selectedCommit>>
    /\ UNCHANGED <<currentRepoPath, selectedFile, blameLoadVars, blameHistory>>
    /\ UNCHANGED <<commitVars, allFileItems, filteredFileItems, fileItems,
                   currentFileIndex, currentViewMode, documentVars, navPending,
                   navTimers, navEvent, navClick>>
    /\ UNCHANGED <<currentBranch, sidebarLists>>
    /\ UNCHANGED <<searchVars, engineVars, diffVars, recentVars>>

\* get_staged_changes or get_stashes answers.  The staged elements carry
\* data-path and no data-file-path, so #file-changes holds no file item.
SidebarResolved ==
    \E req \in BagToSet(sidebarPending) :
        /\ sidebarPending' = sidebarPending (-) SetToBag({req})
        /\ CASE req.from = "loadStagedChanges" ->
                   /\ sidebarLists' = [sidebarLists EXCEPT
                                          !.staged = ListPanel("none", StagedChanges)]
                   /\ UNCHANGED fileChangesPanel
             [] req.from = "updateFileChangesForStaged" ->
                   /\ fileChangesPanel' = ListPanel("staged", <<>>)
                   /\ UNCHANGED sidebarLists
             [] OTHER ->
                   /\ sidebarLists' = [sidebarLists EXCEPT
                                          !.stash = ListPanel("none", Stashes)]
                   /\ UNCHANGED fileChangesPanel
        /\ UNCHANGED blameVars
        /\ UNCHANGED <<commitVars, allFileItems, filteredFileItems, fileItems,
                       currentFileIndex, currentViewMode, documentVars, navPending,
                       navTimers, navEvent, navClick>>
        /\ UNCHANGED <<currentBranch, currentSidebarMode, sidebarEvent>>
        /\ UNCHANGED <<searchVars, engineVars, diffVars, recentVars>>

NextSidebar ==
    \/ \E branchName \in BranchList : SelectBranch(branchName)
    \/ CommitsResolved
    \/ \E i \in 1..Len(CommitIds) : ClickCommit(i)
    \/ ChangesResolved
    \/ \E mode \in SidebarModes : SwitchSidebarMode(mode)
    \/ SidebarResolved

SpecSidebar == InitRace /\ [][NextSidebar]_vars

\* The switch that ran last went to 'staged' from another mode, with a
\* repository open and the checked-out branch selected.
SwitchedToStaged ==
    /\ sidebarEvent.to = "staged"
    /\ sidebarEvent.from \in SidebarModes \ {"staged"}
    /\ sidebarEvent.repoOpen
    /\ sidebarEvent.branch = CheckedOutBranch

\* C26: a switch of the sidebar from another mode to 'staged', made while a
\* repository is open and its checked-out branch is the selected branch,
\* issues a get_staged_changes request.
C26_StagedSwitchLoadsStagedList ==
    SwitchedToStaged =>
        \E req \in BagToSet(sidebarEvent.issued) : req.cmd = "get_staged_changes"

=============================================================================
